---- MODULE Spec2Model ----
(***************************************************************************)
(* A model of the Triage contract-risk application:                        *)
(*   - the deterministic rule engine (rules_engine.py),                    *)
(*   - the LLM evaluator (evaluator.py),                                   *)
(*   - the web application's session store and handlers (main.py),         *)
(*   - the experiment harness (experiments/).                              *)
(*                                                                         *)
(* Text is modelled as a sequence of words.  The raw text is the words      *)
(* joined by single spaces; the word BlankLine is the two-character string *)
(* "\n\n".  Character offsets are computed from the lengths of the words,  *)
(* so every index of the model is a character index of the Python string.  *)
(* The regular expressions of the rule catalog are modelled by their       *)
(* action on this vocabulary: a pattern is a set of start phrases, a lazy  *)
(* gap and a set of end phrases; an anchor is a phrase; a nearby pattern   *)
(* is a phrase or a greedy pair of phrases.  Matching is case-insensitive  *)
(* in the code; the vocabulary is lower case throughout.                   *)
(***************************************************************************)
EXTENDS Integers, Sequences, FiniteSets, TLC

VARIABLES
    text,        \* engine: the words of the text handed to analyze()
    analysis,    \* engine: what analyze() gave back (NotCalled before the call)
    evalIn,      \* evaluator: the inputs of the call (client, findings, risk, reply)
    evalOut,     \* evaluator: the outcome of the call (NotCalled before the call)
    devMode,     \* web: DEV_MODE
    now,         \* web: the clock, in days
    sessionStore,\* web: session_store, session id -> entry
    issued,      \* web: the session ids minted so far
    response,    \* web: the handler that ran last and what it answered
    fnIn,        \* helper functions: the function called and its arguments
    fnOut,       \* helper functions: what the call gave back
    disk,        \* experiments: the corpus files on disk, portion -> file numbers
    frame,       \* experiments: the local variables and position of run_all.main
    inflight     \* web: the handlers suspended at an await, with their locals

vars == <<text, analysis, evalIn, evalOut, devMode, now, sessionStore, issued, response,
         fnIn, fnOut, disk, frame, inflight>>

NotCalled == [kind |-> "not_called"]

(***************************************************************************)
(* Bounds of the model.                                                    *)
(***************************************************************************)
MaxPhrases == 3

(***************************************************************************)
(* Vocabulary.                                                             *)
(***************************************************************************)
BlankLine == "\n\n"
Filler == "xxxxxxxxxxxxxxxxxxxxxxxxxxxxxxxxxxxxxxxxxxxxxxxxxxxxxxxxxxxxxxxxxxxxxxxxxxxxxxxxxxxxxxxxxxxxxxxxxxxxxxxxxxxxxxxxxxxxxxxxxxxxxxxxxxxxxxxxxxxxxxxxxxxxxxxxxxxxxxxxxxxxxxxxxxxxxxxxxxxxxxxxxxxxxxxxxxxxxxxxxxxxxxxxxxxxxxxxxxxxxxxxxxxxxxxxxxxxxxxxxxxxxxxxxxxxxxxxxxxxxxxxxxxxxxxxxxxxxxxxxxxxxxxxxxxxxxxxxxxx"

Min(a, b) == IF a < b THEN a ELSE b
Max(a, b) == IF a > b THEN a ELSE b

\* len(word)
WordLen(w) == Len(w)

RECURSIVE OffsetsFrom(_, _)
OffsetsFrom(ws, at) ==
    IF ws = <<>> THEN <<>>
    ELSE <<at>> \o OffsetsFrom(Tail(ws), at + WordLen(Head(ws)) + 1)

\* the character offset at which word i starts in " ".join(ws)
WordStart(ws, i) == OffsetsFrom(ws, 0)[i]

\* the character offset just past word i
WordEnd(ws, i) == WordStart(ws, i) + WordLen(ws[i])

\* len(" ".join(ws))
JoinedLen(ws) == IF ws = <<>> THEN 0 ELSE WordEnd(ws, Len(ws))

\* phrase ph stands at word i of ws (its words follow one another, one space apart)
PhraseAt(ws, i, ph) ==
    /\ i >= 1
    /\ i + Len(ph) - 1 <= Len(ws)
    /\ \A k \in 1..Len(ph) : ws[i + k - 1] = ph[k]

\* phrase ph stands at word i of ws and lies inside the slice ws_string[lo:hi]
PhraseInSlice(ws, i, ph, lo, hi) ==
    /\ Len(ph) >= 1
    /\ PhraseAt(ws, i, ph)
    /\ WordStart(ws, i) >= lo
    /\ WordEnd(ws, i + Len(ph) - 1) <= hi

\* `phrase in text[lo:hi]` for a phrase of whole words
SliceContains(ws, ph, lo, hi) ==
    \E i \in 1..Len(ws) : PhraseInSlice(ws, i, ph, lo, hi)

SetMin(S) == CHOOSE x \in S : \A y \in S : x <= y

(***************************************************************************)
(* rules_engine.py: _normalize_whitespace, _chunk_text, _excerpt,          *)
(* _extract_clause_number.                                                 *)
(***************************************************************************)
\* A word that is white space only: the empty word makes a run of two spaces.
IsBlankWord(w) == w = ""

\* _WS_RE.sub(" ", text).strip(): runs of white space become one space
NormalizeWhitespace(ws) ==
    SelectSeq(ws, LAMBDA w : ~IsBlankWord(w) /\ w # BlankLine)

\* raw.split("\n\n"), each part stripped and kept when not empty
RECURSIVE SplitParts(_, _, _)
SplitParts(ws, cur, acc) ==
    LET closed == IF NormalizeWhitespace(cur) # <<>> THEN Append(acc, cur) ELSE acc
    IN  IF ws = <<>> THEN closed
        ELSE IF Head(ws) = BlankLine THEN SplitParts(Tail(ws), <<>>, closed)
        ELSE SplitParts(Tail(ws), Append(cur, Head(ws)), acc)

\* The fixed-size fallback: reached only when no part is left, that is when the
\* text is white space only, and then `cleaned` is empty and so is the result.
FixedSizeChunks(cleaned) == IF cleaned = <<>> THEN <<>> ELSE <<cleaned>>

ChunkText(raw) ==
    LET parts == SplitParts(raw, <<>>, <<>>)
    IN  IF parts # <<>>
        THEN [k \in 1..Len(parts) |-> NormalizeWhitespace(parts[k])]
        ELSE FixedSizeChunks(NormalizeWhitespace(raw))

\* the character at offset i of " ".join(ws) is a space
IsSpaceAt(ws, i) == \E k \in 2..Len(ws) : WordStart(ws, k) = i + 1

ExcerptRadius == 140

\* len(_excerpt(chunk, start, end)): the stripped slice between two "..."
ExcerptLen(chunk, start, end) ==
    LET s == Max(0, start - ExcerptRadius)
        e == Min(JoinedLen(chunk), end + ExcerptRadius)
        lead == IF IsSpaceAt(chunk, s) THEN 1 ELSE 0
        trail == IF IsSpaceAt(chunk, e - 1) THEN 1 ELSE 0
    IN  3 + (e - s - lead - trail) + 3

NoClause == "None"
ClauseWindow == 500

\* the words the clause-number patterns match, and the group they capture
ClauseWords == {"(1)", "(2)"}
ClauseGroup(w) == IF w = "(1)" THEN "1" ELSE "2"

\* _extract_clause_number(text, position): the match closest to the centre of
\* the window, the first one among equally close ones
ExtractClauseNumber(raw, position) ==
    LET start == Max(0, position - ClauseWindow)
        end == Min(JoinedLen(raw), position + ClauseWindow)
        center == (end - start) \div 2
        hits == {i \in 1..Len(raw) : /\ raw[i] \in ClauseWords
                                     /\ WordStart(raw, i) >= start
                                     /\ WordEnd(raw, i) <= end}
        Dist(i) == LET d == (WordStart(raw, i) - start) - center
                   IN  IF d < 0 THEN 0 - d ELSE d
        closest == CHOOSE i \in hits :
                       \A j \in hits : Dist(i) < Dist(j) \/ (Dist(i) = Dist(j) /\ i <= j)
    IN  IF hits = {} THEN NoClause ELSE ClauseGroup(raw[closest])

(***************************************************************************)
(* rules_engine.py: RuleEngine._build_rules, the catalog.  A rule is a      *)
(* direct pattern or anchors with nearby patterns inside a window.         *)
(***************************************************************************)
DefaultWindow == 350

PatternRule(id, sev) ==
    [rule_id |-> id, severity |-> sev, kind |-> "pattern", window |-> DefaultWindow]

ProximityRule(id, sev, w) ==
    [rule_id |-> id, severity |-> sev, kind |-> "proximity", window |-> w]

BuildRules == <<
    ProximityRule("H_INDEM_01", "high", 300),
    ProximityRule("H_LOL_01", "high", 450),
    PatternRule("H_IP_01", "high"),
    ProximityRule("H_PERSONAL_01", "high", 350),
    ProximityRule("H_INDEM_ONEWAY_01", "high", 350),
    PatternRule("H_IP_WORK_PRODUCT_01", "high"),
    PatternRule("H_ATTFEE_01", "high"),
    ProximityRule("H_LOL_CARVEOUT_01", "high", 450),
    ProximityRule("H_ASSIGN_CHANGE_CTRL_01", "high", 400),
    ProximityRule("H_PUBLICITY_01", "high", 350),
    PatternRule("M_CONF_01", "medium"),
    ProximityRule("M_RENEW_01", "medium", 400),
    PatternRule("M_NONCOMP_01", "medium"),
    PatternRule("M_DEV_RESTRICT_01", "medium"),
    ProximityRule("M_CONF_SCOPE_01", "medium", 350),
    PatternRule("M_RESIDUALS_01", "medium"),
    PatternRule("M_INJUNCT_01", "medium"),
    ProximityRule("M_EQUIT_NOBOND_01", "medium", 400),
    ProximityRule("M_AUDIT_01", "medium", 350),
    ProximityRule("M_TERM_NOTICE_01", "medium", 300),
    ProximityRule("M_SURVIVAL_SCOPE_01", "medium", 400),
    ProximityRule("M_WAIVER_DEFENSE_01", "medium", 350),
    PatternRule("L_LATEFEE_01", "low"),
    PatternRule("L_BROADDEF_01", "low"),
    PatternRule("L_GOVLAW_01", "low") >>

\* the rule ids of the catalog
CatalogIds == {BuildRules[i].rule_id : i \in 1..Len(BuildRules)}

\* One alternative of a direct pattern: a start phrase, a lazy gap (.*?) and a
\* set of end phrases; the empty end phrase makes a fixed phrase.
Alt(start, ends) == [start |-> start, ends |-> ends]

WorkProductEnds == {<<"owned", "by">>, <<"shall", "be", "the", "property", "of">>}
PerpetualEnds ==
    {<<"perpetual">>, <<"in", "perpetuity">>, <<"indefinite">>, <<"indefinitely">>,
     <<"no", "expiration">>}

\* rule.pattern, by the phrases of the vocabulary it matches; the patterns of the
\* other pattern rules match no phrase of the vocabulary
PatternAlts(rid) ==
    CASE rid = "H_IP_WORK_PRODUCT_01" ->
            {Alt(<<"work", "product">>, WorkProductEnds),
             Alt(<<"deliverable">>, WorkProductEnds),
             Alt(<<"deliverables">>, WorkProductEnds)}
      [] rid = "M_CONF_01" ->
            {Alt(<<"confidential">>, PerpetualEnds),
             Alt(<<"confidentiality">>, PerpetualEnds),
             Alt(<<"confidentially">>, PerpetualEnds),
             Alt(<<"non-disclosure">>, PerpetualEnds)}
      [] rid = "M_INJUNCT_01" ->
            {Alt(<<"injunctive", "relief">>, {<<>>}),
             Alt(<<"equitable", "relief">>, {<<>>})}
      [] rid = "L_GOVLAW_01" ->
            {Alt(<<"governed", "by">>, {<<"law">>, <<"laws">>}),
             Alt(<<"exclusive", "jurisdiction">>, {<<>>})}
      [] OTHER -> {}

\* rule.anchors, by the phrases of the vocabulary
Anchors(rid) ==
    CASE rid = "H_INDEM_01" -> {<<"indemnify">>, <<"hold", "harmless">>}
      [] rid = "H_INDEM_ONEWAY_01" -> {<<"indemnify">>}
      [] rid = "H_LOL_01" -> {<<"limitation", "of", "liability">>, <<"liability">>}
      [] rid = "H_LOL_CARVEOUT_01" ->
            {<<"limitation", "of", "liability">>, <<"liability", "cap">>}
      [] OTHER -> {}

\* rule.nearby, the patterns that are one phrase
NearbyPhrases(rid) ==
    CASE rid = "H_INDEM_01" ->
            {<<"no", "limit">>, <<"without", "limit">>, <<"unlimited">>,
             <<"not", "be", "limited">>}
      [] rid = "H_LOL_01" -> {<<"not", "be", "limited">>, <<"without", "limitation">>}
      [] OTHER -> {}

\* rule.nearby, the patterns of the shape  first .* second  (greedy)
NearbyPairs(rid) ==
    CASE rid = "H_LOL_CARVEOUT_01" ->
            {<<<<"excluding">>, <<"indemnify">>>>,
             <<<<"except", "for">>, <<"indemnify">>>>,
             <<<<"not", "apply", "to">>, <<"indemnify">>>>}
      [] OTHER -> {}

(***************************************************************************)
(* rules_engine.py: _find_all and _proximity_spans.  A match is a pair of   *)
(* word indices [s, e] of the chunk.                                       *)
(***************************************************************************)
\* the word at which alternative a, started at word i, ends; 0 when it fails
AltEnd(c, i, a) ==
    IF ~PhraseAt(c, i, a.start) THEN 0
    ELSE LET from == i + Len(a.start)
             at == {j \in from..(Len(c) + 1) : \E e \in a.ends : PhraseAt(c, j, e)}
             j0 == SetMin(at)
         IN  IF at = {} THEN 0
             ELSE SetMin({j0 + Len(e) - 1 : e \in {x \in a.ends : PhraseAt(c, j0, x)}})

\* the word at which a match of the rule's pattern started at word i ends, or 0
MatchEnd(rid, c, i) ==
    LET ends == {AltEnd(c, i, a) : a \in PatternAlts(rid)} \ {0}
    IN  IF ends = {} THEN 0 ELSE SetMin(ends)

\* re.finditer(pattern, chunk): the matches from word k on, left to right,
\* not overlapping
RECURSIVE FindAll(_, _, _)
FindAll(rid, c, k) ==
    IF k > Len(c) THEN <<>>
    ELSE LET e == MatchEnd(rid, c, k)
         IN  IF e = 0 THEN FindAll(rid, c, k + 1)
             ELSE <<[s |-> k, e |-> e]>> \o FindAll(rid, c, e + 1)

\* some nearby pattern matches inside chunk[left:right]
NearbyMatches(rid, c, left, right) ==
    \/ \E ph \in NearbyPhrases(rid) : SliceContains(c, ph, left, right)
    \/ \E pr \in NearbyPairs(rid) : \E j, k \in 1..Len(c) :
          /\ PhraseInSlice(c, j, pr[1], left, right)
          /\ k >= j + Len(pr[1])
          /\ PhraseInSlice(c, k, pr[2], left, right)

\* a set of matches as the list sorted by (start, end)
RECURSIVE SortSpans(_)
SortSpans(S) ==
    IF S = {} THEN <<>>
    ELSE LET m == CHOOSE x \in S :
                      \A y \in S : x.s < y.s \/ (x.s = y.s /\ x.e <= y.e)
         IN  <<m>> \o SortSpans(S \ {m})

\* _proximity_spans(anchors, nearby, chunk, window): the anchor matches that
\* have a nearby match within the window, without duplicates, sorted
ProximitySpans(rid, window, c) ==
    LET anchorMatches ==
            {m \in {[s |-> i, e |-> i + Len(a) - 1] : i \in 1..Len(c), a \in Anchors(rid)} :
                \E a \in Anchors(rid) : Len(a) = m.e - m.s + 1 /\ PhraseAt(c, m.s, a)}
        Near(m) ==
            NearbyMatches(rid, c,
                          Max(0, WordStart(c, m.s) - window),
                          Min(JoinedLen(c), WordEnd(c, m.e) + window))
    IN  SortSpans({m \in anchorMatches : Near(m)})

(***************************************************************************)
(* rules_engine.py: RuleEngine.analyze, the matching loop.                 *)
(***************************************************************************)
\* RuleEngine.__init__: self.rules = self._build_rules()
EngineRules == BuildRules

\* Finding(...) as analyze() builds it for the match m = [s, e] of a chunk that
\* starts at chunk_offset
FindingRecord(rule_id, severity, raw, chunk, chunk_offset, m) ==
    LET s == WordStart(chunk, m.s)
        e == WordEnd(chunk, m.e)
        absolute_start == chunk_offset + s
        absolute_end == chunk_offset + e
    IN  [rule_id |-> rule_id,
         severity |-> severity,
         notes |-> <<>>,
         excerpt_len |-> ExcerptLen(chunk, s, e),
         position |-> absolute_start,
         start_index |-> absolute_start,
         end_index |-> absolute_end,
         exact_snippet |-> SubSeq(chunk, m.s, m.e),
         clause_number |-> ExtractClauseNumber(raw, absolute_start)]

\* a variant that labels every finding with an id outside the catalog
MakeFindingUnlisted(rule, raw, chunk, chunk_offset, m) ==
    FindingRecord("H_UNLISTED_99", rule.severity, raw, chunk, chunk_offset, m)

\* rule_id=rule.rule_id, severity=rule.severity
MakeFinding(rule, raw, chunk, chunk_offset, m) ==
    FindingRecord(rule.rule_id, rule.severity, raw, chunk, chunk_offset, m)

\* the matches of one rule in one chunk, in the order analyze() appends them
RuleMatches(rule, chunk) ==
    IF rule.kind = "pattern"
    THEN FindAll(rule.rule_id, chunk, 1)
    ELSE ProximitySpans(rule.rule_id, rule.window, chunk)

RuleFindings(rule, raw, chunk, chunk_offset) ==
    LET ms == RuleMatches(rule, chunk)
    IN  [i \in 1..Len(ms) |-> MakeFinding(rule, raw, chunk, chunk_offset, ms[i])]

RECURSIVE ChunkFindings(_, _, _, _, _)
ChunkFindings(rules, r, raw, chunk, chunk_offset) ==
    IF r > Len(rules) THEN <<>>
    ELSE RuleFindings(rules[r], raw, chunk, chunk_offset)
            \o ChunkFindings(rules, r + 1, raw, chunk, chunk_offset)

\* for chunk in chunks: ...; chunk_offset += len(chunk) + 1
RECURSIVE MatchChunks(_, _, _, _, _)
MatchChunks(rules, raw, chunks, k, chunk_offset) ==
    IF k > Len(chunks) THEN <<>>
    ELSE ChunkFindings(rules, 1, raw, chunks[k], chunk_offset)
            \o MatchChunks(rules, raw, chunks, k + 1,
                           chunk_offset + JoinedLen(chunks[k]) + 1)

(***************************************************************************)
(* rules_engine.py: RuleEngine.analyze, deduplication and sort.            *)
(***************************************************************************)
DedupKey(f) == <<f.rule_id, f.clause_number>>

\* every later match of a key replaces the one kept
KeepLast(f, existing) == TRUE

\* f replaces the finding kept for its key: longer excerpt, or as long and earlier
Better(f, existing) ==
    \/ f.excerpt_len > existing.excerpt_len
    \/ (f.excerpt_len = existing.excerpt_len /\ f.position < existing.position)

\* seen_keys after the loop, as the list of its values in insertion order
RECURSIVE Dedup(_, _)
Dedup(findings, seen) ==
    IF findings = <<>> THEN seen
    ELSE LET f == Head(findings)
             at == {i \in 1..Len(seen) : DedupKey(seen[i]) = DedupKey(f)}
             i0 == CHOOSE i \in at : TRUE
             next == IF at = {} THEN Append(seen, f)
                     ELSE IF Better(f, seen[i0]) THEN [seen EXCEPT ![i0] = f]
                     ELSE seen
         IN  Dedup(Tail(findings), next)

SeverityRank(sev) ==
    CASE sev = "high" -> 0 [] sev = "medium" -> 1 [] sev = "low" -> 2 [] OTHER -> 9

\* the rule ids of the catalog in Python's string order
RuleIdsInOrder == <<
    "H_ASSIGN_CHANGE_CTRL_01", "H_ATTFEE_01", "H_INDEM_01", "H_INDEM_ONEWAY_01",
    "H_IP_01", "H_IP_WORK_PRODUCT_01", "H_LOL_01", "H_LOL_CARVEOUT_01",
    "H_PERSONAL_01", "H_PUBLICITY_01", "L_BROADDEF_01", "L_GOVLAW_01",
    "L_LATEFEE_01", "M_AUDIT_01", "M_CONF_01", "M_CONF_SCOPE_01",
    "M_DEV_RESTRICT_01", "M_EQUIT_NOBOND_01", "M_INJUNCT_01", "M_NONCOMP_01",
    "M_RENEW_01", "M_RESIDUALS_01", "M_SURVIVAL_SCOPE_01", "M_TERM_NOTICE_01",
    "M_WAIVER_DEFENSE_01" >>

RuleIdOrder(rid) == CHOOSE i \in 1..Len(RuleIdsInOrder) : RuleIdsInOrder[i] = rid

\* a sort key made of the severity rank alone
SeverityOnlyLess(f, g) == SeverityRank(f.severity) < SeverityRank(g.severity)

\* the sort key (rank.get(x.severity, 9), x.rule_id) of f is below that of g
SortKeyLess(f, g) ==
    \/ SeverityRank(f.severity) < SeverityRank(g.severity)
    \/ /\ SeverityRank(f.severity) = SeverityRank(g.severity)
       /\ RuleIdOrder(f.rule_id) < RuleIdOrder(g.rule_id)

\* f put into the sorted list after every element that is not above it
RECURSIVE InsertSorted(_, _)
InsertSorted(sorted, f) ==
    IF sorted = <<>> THEN <<f>>
    ELSE IF SortKeyLess(f, Head(sorted)) THEN <<f>> \o sorted
    ELSE <<Head(sorted)>> \o InsertSorted(Tail(sorted), f)

\* deduped.sort(key=...): a stable sort
RECURSIVE SortFindings(_, _)
SortFindings(findings, sorted) ==
    IF findings = <<>> THEN sorted
    ELSE SortFindings(Tail(findings), InsertSorted(sorted, Head(findings)))

(***************************************************************************)
(* rules_engine.py: RuleEngine._apply_suppression_rules.                   *)
(***************************************************************************)
SuppressionRadius == 300

EmptyLog == [k \in {} |-> ""]

\* f"{finding.rule_id}_{finding.start_index}": the rule ids hold no digit run
\* after their last underscore but the suffix, so the key names the pair
LogKey(f) == <<f.rule_id, f.start_index>>

ReasonIndemnityLaw == "Downgraded severity: indemnity limited by 'to the extent required by law'"
ReasonIpPreExisting == "Suppressed: IP assignment excludes pre-existing IP"
ReasonCarveoutLaw == "Downgraded severity: carve-out may be required by applicable law"

\* text[context_start:context_end].lower() contains the phrase
InContext(raw, f, ph) ==
    SliceContains(raw, ph,
                  Max(0, f.start_index - SuppressionRadius),
                  Min(JoinedLen(raw), f.end_index + SuppressionRadius))

\* Suppression Rule 1
IndemnityLawLimited(raw, f) ==
    /\ f.rule_id = "H_INDEM_01"
    /\ InContext(raw, f, <<"to", "the", "extent", "required", "by", "law">>)

\* Suppression Rule 2
IpExcludesPreExisting(raw, f) ==
    /\ f.rule_id \in {"H_IP_01", "H_IP_WORK_PRODUCT_01"}
    /\ \/ InContext(raw, f, <<"excluding", "pre-existing">>)
       \/ InContext(raw, f, <<"excluding", "pre", "existing">>)
       \/ InContext(raw, f, <<"excludes", "pre-existing">>)

\* Suppression Rule 3
CarveoutRequiredByLaw(raw, f) ==
    /\ f.rule_id = "H_LOL_CARVEOUT_01"
    /\ InContext(raw, f, <<"except", "as", "required", "by", "applicable", "law">>)

\* the finding rebuilt with severity MEDIUM and a note appended to its rationale
Downgraded(f, note) ==
    [f EXCEPT !.severity = "medium", !.notes = Append(f.notes, note)]

\* one pass of the loop body: the finding appended to `suppressed` (or none)
\* and the reason logged (or none)
SuppressOne(raw, f) ==
    LET after1 == IF IndemnityLawLimited(raw, f)
                  THEN [finding |-> Downgraded(f, "law"), reason |-> ReasonIndemnityLaw]
                  ELSE [finding |-> f, reason |-> ""]
    IN  IF IpExcludesPreExisting(raw, f)
        THEN [kept |-> FALSE, finding |-> f, reason |-> ReasonIpPreExisting]
        ELSE IF CarveoutRequiredByLaw(raw, f)
        THEN [kept |-> TRUE, finding |-> Downgraded(f, "carveout"),
              reason |-> ReasonCarveoutLaw]
        ELSE [kept |-> TRUE, finding |-> after1.finding, reason |-> after1.reason]

\* (suppressed, suppression_reasons)
RECURSIVE ApplySuppressionRules(_, _, _, _)
ApplySuppressionRules(findings, raw, suppressed, reasons) ==
    IF findings = <<>> THEN [findings |-> suppressed, reasons |-> reasons]
    ELSE LET f == Head(findings)
             one == SuppressOne(raw, f)
         IN  ApplySuppressionRules(
                 Tail(findings), raw,
                 IF one.kept THEN Append(suppressed, one.finding) ELSE suppressed,
                 IF one.reason # "" THEN (LogKey(f) :> one.reason) @@ reasons
                 ELSE reasons)

(***************************************************************************)
(* rules_engine.py: RuleEngine._compute_overall_risk and analyze.          *)
(***************************************************************************)
MediumThreshold == 2

\* a variant in which a single medium finding already gives "medium"
ComputeOverallRiskOneMedium(counts) ==
    IF counts["high"] > 0 THEN "high"
    ELSE IF counts["medium"] >= 1 THEN "medium"
    ELSE "low"

ComputeOverallRisk(counts) ==
    IF counts["high"] > 0 THEN "high"
    ELSE IF counts["medium"] >= MediumThreshold THEN "medium"
    ELSE "low"

\* the names bound in the module rules_engine when analyze() runs
RulesEngineGlobals ==
    {"json", "re", "dataclass", "Enum", "Path", "Dict", "List", "Optional", "Tuple",
     "Iterable", "Severity", "Finding", "Rule", "_WS_RE", "_normalize_whitespace",
     "_chunk_text", "_excerpt", "_extract_clause_number", "_extract_matched_keywords",
     "_find_all", "_proximity_spans", "_load_ruleset_version", "_RULESET_VERSION_DATA",
     "RULE_ENGINE_VERSION", "RuleEngine"}

\* the names analyze() reads once some suppression was recorded (logger.info)
SuppressionLoggingNames == {"logger"}

RuleEngineVersion == "1.0.3"

Severities == {"high", "medium", "low"}

\* the findings after deduplication and sort, before suppression
DedupedFindings(raw) ==
    SortFindings(Dedup(MatchChunks(EngineRules, raw, ChunkText(raw), 1, 0), <<>>), <<>>)

\* counts[f.severity.value] += 1
CountBySeverity(findings) ==
    [sev \in Severities |->
        Cardinality({i \in 1..Len(findings) : findings[i].severity = sev})]

\* RuleEngine.analyze(text): the result, or the exception it raises
Analyze(raw) ==
    LET sup == ApplySuppressionRules(DedupedFindings(raw), raw, <<>>, EmptyLog)
        counts == CountBySeverity(sup.findings)
    IN  IF sup.reasons # EmptyLog /\ ~(SuppressionLoggingNames \subseteq RulesEngineGlobals)
        THEN [kind |-> "raised", exception |-> "NameError"]
        ELSE [kind |-> "returned",
              findings |-> sup.findings,
              overall_risk |-> ComputeOverallRisk(counts),
              rule_counts |-> counts,
              version |-> RuleEngineVersion,
              suppression_log |-> sup.reasons]

(***************************************************************************)
(* The texts handed to the engine: up to MaxPhrases phrases.                *)
(***************************************************************************)
Phrases ==
    {<<"indemnify">>,
     <<"unlimited">>,
     <<"to", "the", "extent", "required", "by", "law">>,
     <<Filler>>,
     <<"deliverables", "owned", "by">>,
     <<"excluding", "pre-existing">>,
     <<"confidentiality", "is", "perpetual">>,
     <<"injunctive", "relief">>,
     <<"exclusive", "jurisdiction">>,
     <<BlankLine>>}

RECURSIVE Flatten(_)
Flatten(ps) == IF ps = <<>> THEN <<>> ELSE Head(ps) \o Flatten(Tail(ps))

Texts == {Flatten(ps) : ps \in UNION {[1..n -> Phrases] : n \in 0..MaxPhrases}}

(***************************************************************************)
(* SpecEngine: analyze() applied to one text.                              *)
(***************************************************************************)
WebIdle ==
    /\ devMode = FALSE
    /\ now = 0
    /\ sessionStore = <<>>
    /\ issued = {}
    /\ response = NotCalled
    /\ fnIn = NotCalled
    /\ fnOut = NotCalled
    /\ disk = <<>>
    /\ frame = NotCalled
    /\ inflight = {}

InitEngine ==
    /\ text \in Texts
    /\ analysis = NotCalled
    /\ evalIn = NotCalled
    /\ evalOut = NotCalled
    /\ WebIdle

AnalyzeCall ==
    /\ analysis = NotCalled
    /\ analysis' = Analyze(text)
    /\ UNCHANGED <<text, evalIn, evalOut, devMode, now, sessionStore, issued, response, fnIn, fnOut,
                   disk, frame, inflight>>

NextEngine == AnalyzeCall

SpecEngine == InitEngine /\ [][NextEngine]_vars

(***************************************************************************)
(* Properties of analyze().                                                *)
(***************************************************************************)
Returned == analysis # NotCalled /\ analysis.kind = "returned"

\* the number of findings of a returned list with the given severity
NumWithSeverity(findings, sev) ==
    Cardinality({i \in DOMAIN findings : findings[i].severity = sev})

C7_FindingsNameCatalogRules ==
    Returned =>
        \A i \in DOMAIN analysis.findings :
            analysis.findings[i].rule_id \in {EngineRules[r].rule_id : r \in DOMAIN EngineRules}

\* analyze() returned findings of two different rules
C7_Witness ==
    /\ Returned
    /\ \E i, j \in DOMAIN analysis.findings :
            analysis.findings[i].rule_id # analysis.findings[j].rule_id

\* the deduplicated H_INDEM_01 findings of the text that have the phrase
\* "to the extent required by law" within SuppressionRadius characters
LawLimitedIndemnities ==
    {f \in {DedupedFindings(text)[i] : i \in DOMAIN DedupedFindings(text)} :
        /\ f.rule_id = "H_INDEM_01"
        /\ InContext(text, f, <<"to", "the", "extent", "required", "by", "law">>)}

\* C9: once analyze() has run, every deduplicated H_INDEM_01 finding with
\* "to the extent required by law" within 300 characters of its span is in the
\* returned findings with severity medium, the same rule_id and span, and
\* suppression_log holds a reason under its key.
C9_IndemnityDowngraded ==
    analysis # NotCalled =>
        \A f \in LawLimitedIndemnities :
            /\ analysis.kind = "returned"
            /\ \E i \in DOMAIN analysis.findings :
                    /\ analysis.findings[i].rule_id = f.rule_id
                    /\ analysis.findings[i].start_index = f.start_index
                    /\ analysis.findings[i].end_index = f.end_index
                    /\ analysis.findings[i].severity = "medium"
            /\ LogKey(f) \in DOMAIN analysis.suppression_log

\* the deduplicated findings of the text that a suppression rule drops or
\* downgrades
SuppressionTargets ==
    {f \in {DedupedFindings(text)[i] : i \in DOMAIN DedupedFindings(text)} :
        \/ IpExcludesPreExisting(text, f)
        \/ IndemnityLawLimited(text, f)
        \/ CarveoutRequiredByLaw(text, f)}

\* C10: once analyze() has run, its result has a suppression_log whose keys
\* are exactly the keys of the deduplicated findings that a suppression rule
\* dropped or downgraded, and every other deduplicated finding is returned
\* unchanged.
C10_SuppressionLogExact ==
    analysis # NotCalled =>
        /\ analysis.kind = "returned"
        /\ DOMAIN analysis.suppression_log = {LogKey(f) : f \in SuppressionTargets}
        /\ \A i \in DOMAIN DedupedFindings(text) :
                DedupedFindings(text)[i] \notin SuppressionTargets =>
                    \E j \in DOMAIN analysis.findings :
                        analysis.findings[j] = DedupedFindings(text)[i]

\* C11: analyze() raises on no text: once it has run on any input, empty
\* or with a suppression firing, it has returned a result.
C11_AnalyzeNeverRaises ==
    analysis # NotCalled => analysis.kind = "returned"

\* text[start:end] == snippet, for a snippet made of whole words joined by
\* single spaces: some word of the text starts at `start`, the words of the
\* snippet follow one another from there, and the last one ends at `end`
SliceEquals(raw, start, end, snippet) ==
    \E i \in DOMAIN raw :
        /\ WordStart(raw, i) = start
        /\ PhraseAt(raw, i, snippet)
        /\ WordEnd(raw, i + Len(snippet) - 1) = end

\* C12: for every finding analyze() returns, the slice of the input text
\* from start_index to end_index equals the finding's exact_snippet, also
\* for texts with blank-line-separated sections or runs of whitespace.
C12_OffsetsAreAbsolute ==
    Returned =>
        \A i \in DOMAIN analysis.findings :
            SliceEquals(text, analysis.findings[i].start_index,
                        analysis.findings[i].end_index,
                        analysis.findings[i].exact_snippet)

\* the matches of the text in the order the matching loop appends them
RawMatches == MatchChunks(EngineRules, text, ChunkText(text), 1, 0)

MaxFindings == 2

Str(s) == [type |-> "str", v |-> <<<<s>>>>]
List(items) == [type |-> "list", v |-> items]

\* d.get(k, default)
Get(d, k, default) == IF k \in DOMAIN d THEN d[k] ELSE default

RequiredKeys ==
    {"overall_risk", "summary_bullets", "top_issues", "possible_missing_sections",
     "disclaimer"}

ListKeys == {"summary_bullets", "top_issues", "possible_missing_sections"}

Disclaimer == "This is automated risk triage, not legal advice."

FallbackIssueCap == 6

Take(seq, n) == SubSeq(seq, 1, Min(Len(seq), n))

\* one entry of top_issues built from a finding dict
FallbackIssue(f) ==
    <<IF Get(f, "title", "") # "" THEN f["title"] ELSE Get(f, "rule_name", "Issue"),
      Get(f, "severity", "low"),
      Get(f, "rationale", "This may indicate increased contractual risk."),
      "Commonly negotiated; consider clarifying scope, caps, and mutuality.">>

FallbackSummary(overall_risk) ==
    IF overall_risk = "high" THEN <<<<"High-level">>>>
    ELSE IF overall_risk = "medium" THEN <<<<"Medium-level">>>>
    ELSE <<<<"Low-level">>>>

FallbackMissingSections ==
    <<<<"Limitation of liability">>, <<"Indemnification scope">>,
      <<"Termination / term">>, <<"IP ownership / license scope">>>>

\* LLMEvaluator.create_fallback_response(findings, overall_risk)
CreateFallbackResponse(findings, overall_risk) ==
    [k \in RequiredKeys |->
        CASE k = "overall_risk" -> Str(overall_risk)
          [] k = "summary_bullets" -> List(FallbackSummary(overall_risk))
          [] k = "top_issues" ->
                List([i \in 1..Len(Take(findings, FallbackIssueCap)) |->
                        FallbackIssue(findings[i])])
          [] k = "possible_missing_sections" -> List(FallbackMissingSections)
          [] OTHER -> Str(Disclaimer)]

\* d[k] = value on a dict
SetItem(d, k, value) == [j \in DOMAIN d \cup {k} |-> IF j = k THEN value ELSE d[j]]

\* a variant that leaves the model's overall_risk in place
KeepModelRisk(result, overall_risk) ==
    IF "overall_risk" \in DOMAIN result THEN result
    ELSE SetItem(result, "overall_risk", Str(overall_risk))

\* result["overall_risk"] = overall_risk
OverrideRisk(result, overall_risk) == SetItem(result, "overall_risk", Str(overall_risk))

\* _validate_result raises ValueError
ValidateRaises(result) ==
    \/ ~(RequiredKeys \subseteq DOMAIN result)
    \/ \E k \in ListKeys \cap DOMAIN result : result[k].type # "list"

\* _validate_result's return value
ValidateResult(result) == SetItem(result, "disclaimer", Str(Disclaimer))

IsDictItem(item) == Len(item) = 4

\* _verify_output_maps_to_findings and the logging after it raise
\* AttributeError on an item of top_issues that is not a dict
VerifyRaises(result, findings) ==
    \E i \in DOMAIN result["top_issues"].v : ~IsDictItem(result["top_issues"].v[i])

NoneValue == [k \in {} |-> Str("")]

\* a variant without the zero-findings guard
NoZeroFindingsGuard(findings) == FALSE

\* if not findings
ZeroFindingsGuard(findings) == findings = <<>>

EvalReturn(value, calls) == [kind |-> "returned", value |-> value, api_calls |-> calls]

\* LLMEvaluator.evaluate(findings, overall_risk) on an evaluator whose client
\* is configured or not, the completion API answering with `reply`
Evaluate(client, findings, overall_risk, reply) ==
    IF ~client THEN EvalReturn(NoneValue, 0)
    ELSE IF ZeroFindingsGuard(findings)
    THEN EvalReturn(CreateFallbackResponse(<<>>, overall_risk), 0)
    ELSE IF reply.kind # "object" THEN EvalReturn(NoneValue, 1)
    ELSE LET result == OverrideRisk(reply.obj, overall_risk)
         IN  IF ValidateRaises(result) THEN EvalReturn(NoneValue, 1)
             ELSE IF VerifyRaises(ValidateResult(result), findings)
             THEN EvalReturn(NoneValue, 1)
             ELSE EvalReturn(ValidateResult(result), 1)

(***************************************************************************)
(* The inputs of the evaluator: finding dicts, risk tiers, model replies.  *)
(***************************************************************************)
FindingDicts ==
    {[rule_id |-> "H_INDEM_01", rule_name |-> "indemnification_unlimited",
      title |-> "Indemnification may be uncapped", severity |-> "high",
      rationale |-> "Uncapped indemnity can increase exposure."],
     [rule_id |-> "M_CONF_01", rule_name |-> "perpetual_confidentiality",
      title |-> "", severity |-> "medium"],
     [rule_id |-> "L_GOVLAW_01"]}

FindingLists == UNION {[1..n -> FindingDicts] : n \in 0..MaxFindings}

RiskArguments == {"low", "medium", "high"}

ModelIssueLists ==
    {<<>>,
     <<<<"Indemnification may be uncapped", "high", "why", "consider">>>>,
     <<<<"not a dict">>>>}

ReplyObject(present, badList, risk, issues) ==
    [k \in present |->
        CASE k = "overall_risk" -> Str(risk)
          [] k = "disclaimer" -> Str("Consult a lawyer.")
          [] k \in ListKeys /\ k = badList -> Str("not a list")
          [] k = "top_issues" /\ k # badList -> List(issues)
          [] OTHER -> List(<<<<"text">>>>)]

Replies ==
    {[kind |-> "api_error", obj |-> NoneValue],
     [kind |-> "invalid_json", obj |-> NoneValue],
     [kind |-> "non_object", obj |-> NoneValue]}
    \cup {[kind |-> "object", obj |-> ReplyObject(present, badList, risk, issues)] :
            present \in SUBSET RequiredKeys, badList \in {"none"} \cup ListKeys,
            risk \in {"low", "critical"}, issues \in ModelIssueLists}

NoCall == [op |-> "none", findings |-> <<>>, overall_risk |-> "low",
           reply |-> [kind |-> "api_error", obj |-> NoneValue]]

(***************************************************************************)
(* SpecEval: one call of evaluate() or create_fallback_response() on an    *)
(* evaluator constructed with or without a client.                         *)
(***************************************************************************)
InitEval ==
    /\ text = <<>>
    /\ analysis = NotCalled
    /\ \E c \in BOOLEAN : evalIn = [client |-> c, call |-> NoCall]
    /\ evalOut = NotCalled
    /\ WebIdle

EvaluateCall ==
    /\ evalOut = NotCalled
    /\ \E findings \in FindingLists, overall_risk \in RiskArguments, reply \in Replies :
        /\ evalIn' = [evalIn EXCEPT !.call =
                        [op |-> "evaluate", findings |-> findings,
                         overall_risk |-> overall_risk, reply |-> reply]]
        /\ evalOut' = Evaluate(evalIn.client, findings, overall_risk, reply)
    /\ UNCHANGED <<text, analysis, devMode, now, sessionStore, issued, response, fnIn, fnOut,
                   disk, frame, inflight>>

CreateFallbackResponseCall ==
    /\ evalOut = NotCalled
    /\ \E findings \in FindingLists, overall_risk \in RiskArguments :
        /\ evalIn' = [evalIn EXCEPT !.call =
                        [op |-> "create_fallback_response", findings |-> findings,
                         overall_risk |-> overall_risk, reply |-> NoCall.reply]]
        /\ evalOut' = EvalReturn(CreateFallbackResponse(findings, overall_risk), 0)
    /\ UNCHANGED <<text, analysis, devMode, now, sessionStore, issued, response, fnIn, fnOut,
                   disk, frame, inflight>>

NextEval == EvaluateCall \/ CreateFallbackResponseCall

SpecEval == InitEval /\ [][NextEval]_vars

(***************************************************************************)
(* Properties of the evaluator.                                            *)
(***************************************************************************)
EvalResult == evalOut # NotCalled /\ evalOut.value # NoneValue

\* C4: a result returned by evaluate() or create_fallback_response() has
\* overall_risk equal to the overall_risk argument, whatever the model's
\* reply carried for that field.
C4_RiskEqualsArgument ==
    EvalResult => evalOut.value["overall_risk"] = Str(evalIn.call.overall_risk)

\* evaluate() returned the validated reply of a model that answered with a
\* different overall_risk
C4_Witness ==
    /\ EvalResult
    /\ evalIn.call.op = "evaluate"
    /\ evalOut.api_calls = 1
    /\ "overall_risk" \in DOMAIN evalIn.call.reply.obj
    /\ evalIn.call.reply.obj["overall_risk"] # Str(evalIn.call.overall_risk)
    /\ evalOut.value["overall_risk"] = Str(evalIn.call.overall_risk)

EmptyEvaluate ==
    /\ evalOut # NotCalled
    /\ evalIn.call.op = "evaluate"
    /\ evalIn.call.findings = <<>>

\* C5 as stated: evaluate() with an empty findings list issues no model call
\* and returns a result with the five keys of the fallback shape, whether or
\* not a client is configured.
C5_EmptyFindingsFallbackAlways ==
    EmptyEvaluate =>
        /\ evalOut.api_calls = 0
        /\ DOMAIN evalOut.value = RequiredKeys

\* C5 amended: evaluate() with an empty findings list issues no model call;
\* with a client configured it returns create_fallback_response([], risk),
\* a result with the five keys, and with no client it returns no value.
C5_EmptyFindingsNoModelCall ==
    EmptyEvaluate =>
        /\ evalOut.api_calls = 0
        /\ evalIn.client =>
              /\ DOMAIN evalOut.value = RequiredKeys
              /\ evalOut.value = CreateFallbackResponse(<<>>, evalIn.call.overall_risk)
        /\ ~evalIn.client => evalOut.value = NoneValue

\* evaluate() with a client and an empty findings list returned the five keys
C5_Witness ==
    /\ EmptyEvaluate
    /\ evalIn.client
    /\ evalOut.api_calls = 0
    /\ DOMAIN evalOut.value = RequiredKeys

(***************************************************************************)
(* main.py: the session store, tokens and handlers.  Time is counted in    *)
(* days.  `issued` holds the session ids minted so far,                    *)
(* `response` the answer of the last request together with the request.    *)
(***************************************************************************)
MaxTime == 2

\* timedelta(hours=24), in days
SessionTtl == 1

\* A string that may hold colons is the sequence of its colon-separated
\* segments; a segment of plain characters s is <<s>>, and Text(s) is the
\* string s that holds no colon.
Text(s) == <<<<s>>>>

\* the values secrets.token_urlsafe(18) can return
SessionIds == {Text("s1"), Text("s2")}

\* the order in which the model mints them
SessionIdOrder == <<Text("s1"), Text("s2")>>

\* app_session_id = secrets.token_urlsafe(18): an id not minted before
FreshSessionId(minted) == SessionIdOrder[Cardinality(minted) + 1]

\* checkout.id of the Stripe Checkout Session created for a session
CheckoutId(session_id) == <<"cs", session_id>>

\* "stripe_session_id": None
NoStripeId == <<>>

AppHmacSecret == "app-secret"

\* hmac.new(key, session_id, sha256).hexdigest(): a string without ":", one
\* segment that names the key and the message (no two inputs collide)
HmacHex(key, session_id) == <<<<"hmac", key, session_id>>>>

\* f"{session_id}:{sig}"
SignToken(session_id) == session_id \o HmacHex(AppHmacSecret, session_id)

\* a variant that splits at the first colon: token.split(":", 1)
SplitFirst(token) ==
    IF Len(token) < 2 THEN <<token>>
    ELSE <<SubSeq(token, 1, 1), SubSeq(token, 2, Len(token))>>

\* token.rsplit(":", 1): the token itself when it has no colon, otherwise
\* what precedes the last colon and what follows it
RSplit(token) ==
    IF Len(token) < 2 THEN <<token>>
    ELSE <<SubSeq(token, 1, Len(token) - 1), SubSeq(token, Len(token), Len(token))>>

\* the value None of verify_token
NoSession == <<>>

\* the try block of verify_token: the exception raised by unpacking, or the
\* value returned, or "fell through" to the final return
VerifyTokenTry(token) ==
    LET parts == RSplit(token)
    IN  IF Len(parts) # 2 THEN [kind |-> "raised", value |-> NoSession]
        ELSE IF parts[2] = HmacHex(AppHmacSecret, parts[1])
        THEN [kind |-> "returned", value |-> parts[1]]
        ELSE [kind |-> "fell_through", value |-> NoSession]

\* verify_token: `except Exception` logs the exception raised in the try
\* block and falls through to `return None`
VerifyTokenOutcome(token) ==
    [kind |-> "returned", value |-> VerifyTokenTry(token).value]

\* the session id verify_token returns, or None
VerifyToken(token) == VerifyTokenOutcome(token).value

\* not app_session_id: None or the empty string
IsFalsyId(session_id) == session_id = NoSession \/ session_id = Text("")

\* the tokens a client can send: signed ones, one signed with another key,
\* one without a colon
Tokens ==
    {SignToken(sid) : sid \in SessionIds}
    \cup {Text("s1") \o HmacHex("guess", Text("s1")), Text("garbage")}

\* a cleanup that deletes nothing
KeepExpiredSessions(store, time) == store

\* cleanup_expired_sessions: the store without the entries whose
\* expires_at < now
CleanupExpiredSessions(store, time) ==
    [sid \in {k \in DOMAIN store : ~(store[k].expires_at < time)} |-> store[sid]]

\* session_store[session_id] = entry
StoreSet(store, session_id, entry) ==
    [sid \in DOMAIN store \cup {session_id} |->
        IF sid = session_id THEN entry ELSE store[sid]]

\* the contract texts that uploads carry
SessionTexts ==
    {<<"confidentiality", "is", "perpetual">>,
     <<"indemnify", "unlimited", "to", "the", "extent", "required", "by", "law">>}

\* not contract_text or not contract_text.strip()
IsBlankText(t) == \A i \in DOMAIN t : t[i] \in {"", BlankLine}

AllowedExtensions == {".pdf", ".docx", ".txt"}

\* MAX_UPLOAD_BYTES = 10 * 1024 * 1024
MaxUploadBytes == 10485760

\* os.path.splitext(filename.lower())[1] on the file names of the model; a
\* name that is only a dot and letters has no extension
SplitextLower(filename) ==
    CASE filename = "nda.txt" -> ".txt"
      [] filename = "NDA.TXT" -> ".txt"
      [] filename = "nda.pdf" -> ".pdf"
      [] filename = "nda.exe" -> ".exe"
      [] OTHER -> ""

\* an upload: the file name, the number of bytes of the payload, the outcome
\* of extract_text_from_file, and whether stripe.checkout.Session.create
\* succeeds
UploadRequest(filename, size, parsed, contract_text, checkout_ok) ==
    [filename |-> filename, size |-> size, parsed |-> parsed,
     contract_text |-> contract_text, checkout_ok |-> checkout_ok]

\* the file name each contract text is uploaded under
FilenameOf(t) == IF Len(t) = 3 THEN "nda.txt" ELSE "NDA.TXT"

UploadRequests ==
    {UploadRequest("", 1, TRUE, <<>>, TRUE),
     UploadRequest("nda.exe", 1, TRUE, <<>>, TRUE),
     UploadRequest(".txt", 1, TRUE, <<>>, TRUE),
     UploadRequest("nda.txt", 0, TRUE, <<>>, TRUE),
     UploadRequest("nda.txt", MaxUploadBytes + 1, TRUE, <<>>, TRUE),
     UploadRequest("nda.pdf", 1, FALSE, <<>>, TRUE),
     UploadRequest("nda.txt", 1, TRUE, <<BlankLine>>, TRUE)}
    \cup {UploadRequest(FilenameOf(t), MaxUploadBytes, TRUE, t, ok) :
            t \in SessionTexts, ok \in BOOLEAN}

\* the answer of a handler
Answer(handler, request, status, body) ==
    [handler |-> handler, request |-> request, status |-> status, body |-> body,
     analysis_ran |-> FALSE, failed_at |-> "none"]

\* a variant that also rejects a payload of exactly MAX_UPLOAD_BYTES bytes
TooLargeFromLimit(size) == size >= MaxUploadBytes

\* len(file_bytes) > MAX_UPLOAD_BYTES
TooLarge(size) == size > MaxUploadBytes

\* the client error upload_contract raises, or "none"
UploadRejection(req) ==
    IF req.filename = "" THEN "Missing filename"
    ELSE IF SplitextLower(req.filename) \notin AllowedExtensions
    THEN "Only PDF, DOCX, or TXT files are allowed"
    ELSE IF req.size = 0 THEN "Empty file"
    ELSE IF TooLarge(req.size) THEN "File too large (max 10MB)"
    ELSE IF ~req.parsed THEN "Failed to parse document"
    ELSE IF IsBlankText(req.contract_text)
    THEN "File appears unreadable or empty after parsing"
    ELSE "none"

\* an entry that expires at the moment it is stored
NewEntryWithoutTtl(req, paid, stripe_session_id, time) ==
    [paid |-> paid, text |-> req.contract_text, filename |-> req.filename,
     stripe_session_id |-> stripe_session_id, expires_at |-> time]

\* the entry upload_contract stores
NewEntry(req, paid, stripe_session_id, time) ==
    [paid |-> paid, text |-> req.contract_text, filename |-> req.filename,
     stripe_session_id |-> stripe_session_id, expires_at |-> time + SessionTtl]

\* POST /upload
UploadContract ==
    /\ issued # SessionIds
    /\ \E req \in UploadRequests, sid \in {FreshSessionId(issued)} :
           LET store == CleanupExpiredSessions(sessionStore, now)
           IN  IF UploadRejection(req) # "none"
               THEN /\ sessionStore' = store
                    /\ issued' = issued
                    /\ response' = Answer("upload_contract", req, 400, UploadRejection(req))
               ELSE IF devMode
               THEN /\ sessionStore' = StoreSet(store, sid, NewEntry(req, TRUE, NoStripeId, now))
                    /\ issued' = issued \cup {sid}
                    /\ response' = Answer("upload_contract", req, 303, "redirect_results")
               ELSE IF ~req.checkout_ok
               THEN /\ sessionStore' = store
                    /\ issued' = issued \cup {sid}
                    /\ response' = Answer("upload_contract", req, 500,
                                          "Failed to create payment session")
               ELSE /\ sessionStore' =
                           StoreSet(store, sid, NewEntry(req, FALSE, CheckoutId(sid), now))
                    /\ issued' = issued \cup {sid}
                    /\ response' = Answer("upload_contract", req, 303, "redirect_checkout")
    /\ UNCHANGED <<text, analysis, evalIn, evalOut, devMode, now, fnIn, fnOut,
                   disk, frame, inflight>>

\* the events POSTed to /stripe-webhook: one whose signature does not verify,
\* and verified events of two types naming a session and a checkout id
WebhookEvents ==
    {[signed |-> FALSE, type |-> "checkout.session.completed",
      client_reference_id |-> Text("s1"), id |-> CheckoutId(Text("s1"))]}
    \cup {[signed |-> TRUE, type |-> "checkout.session.completed",
           client_reference_id |-> c, id |-> CheckoutId(i)] :
            c \in SessionIds \cup {Text("unknown")},
            i \in SessionIds \cup {Text("other")}}
    \cup {[signed |-> TRUE, type |-> "checkout.session.completed",
           client_reference_id |-> NoSession, id |-> CheckoutId(Text("other"))]}
    \cup {[signed |-> TRUE, type |-> "payment_intent.succeeded",
           client_reference_id |-> c, id |-> CheckoutId(c)] : c \in SessionIds}

\* a variant of the sanity check that accepts every checkout id
NoStripeIdCheck(stored_stripe, stripe_session_id) == FALSE

\* stored_stripe and stored_stripe != stripe_session_id
StripeIdMismatch(stored_stripe, stripe_session_id) ==
    stored_stripe # NoStripeId /\ stored_stripe # stripe_session_id

\* the store after the webhook handled a verified event
MarkPaid(store, event) ==
    IF /\ event.type = "checkout.session.completed"
       /\ event.client_reference_id \in DOMAIN store
       /\ ~StripeIdMismatch(store[event.client_reference_id].stripe_session_id, event.id)
    THEN [store EXCEPT ![event.client_reference_id].paid = TRUE]
    ELSE store

\* a webhook that answers an unknown session reference with an error
WebhookReplyRejectingUnknown(store, event) ==
    IF /\ event.type = "checkout.session.completed"
       /\ event.client_reference_id \notin DOMAIN store
    THEN [status |-> 404, body |-> "unknown session"]
    ELSE [status |-> 200, body |-> "ok"]

\* return {"status": "ok"}: the answer to a verified event, whatever the
\* store and the event
WebhookReply(store, event) == [status |-> 200, body |-> "ok"]

\* startup raises unless STRIPE_WEBHOOK_SECRET is set in production mode
StripeWebhookSecretSet == TRUE

\* POST /stripe-webhook
StripeWebhook ==
    /\ \E event \in WebhookEvents :
        IF devMode
        THEN /\ response' = Answer("stripe_webhook", event, 200, "ignored")
             /\ sessionStore' = sessionStore
        ELSE IF ~StripeWebhookSecretSet
        THEN /\ response' = Answer("stripe_webhook", event, 500,
                                   "Stripe webhook secret not configured")
             /\ sessionStore' = sessionStore
        ELSE IF ~event.signed
        THEN /\ response' = Answer("stripe_webhook", event, 400,
                                   "Invalid webhook signature")
             /\ sessionStore' = sessionStore
        ELSE /\ response' = Answer("stripe_webhook", event,
                                   WebhookReply(sessionStore, event).status,
                                   WebhookReply(sessionStore, event).body)
             /\ sessionStore' = MarkPaid(sessionStore, event)
    /\ UNCHANGED <<text, analysis, evalIn, evalOut, devMode, now, issued, fnIn, fnOut,
                   disk, frame, inflight>>

\* GET /
Index ==
    /\ sessionStore' = CleanupExpiredSessions(sessionStore, now)
    /\ response' = Answer("index", <<>>, 200, "index_page")
    /\ UNCHANGED <<text, analysis, evalIn, evalOut, devMode, now, issued, fnIn, fnOut,
                   disk, frame, inflight>>

\* GET /config
GetConfig ==
    /\ response' = Answer("get_config", <<>>, 200, "config")
    /\ UNCHANGED <<text, analysis, evalIn, evalOut, devMode, now, sessionStore, issued, fnIn, fnOut,
                   disk, frame, inflight>>

\* datetime.now() advances by a day
Tick ==
    /\ now < MaxTime
    /\ now' = now + 1
    /\ UNCHANGED <<text, analysis, evalIn, evalOut, devMode, sessionStore, issued, response, fnIn, fnOut,
                   disk, frame, inflight>>

\* a variant of the payment check that lets every session through
PaymentNeverRequired(entry) == FALSE

\* not entry.get("paid") and not DEV_MODE
PaymentRequired(entry) == ~entry.paid /\ ~devMode

\* the parameters of LLMEvaluator.evaluate besides self
EvaluateParameters == {"findings", "overall_risk"}

\* the keyword arguments results() and download_pdf() pass to evaluate()
HandlerEvaluateKeywords == {"findings", "overall_risk", "contract_text"}

\* findings_dict, with the keys the model's findings carry
FindingsDict(findings) ==
    [i \in DOMAIN findings |->
        [rule_id |-> findings[i].rule_id, severity |-> findings[i].severity]]

\* an answer given after analyze() was called
AfterAnalysis(answer, failed_at) ==
    [answer EXCEPT !.analysis_ran = TRUE, !.failed_at = failed_at]

\* the answer of results() and download_pdf() once analyze() gave `a`:
\* `failure` is the detail of the HTTPException raised by `except Exception`,
\* `report` the body of the success answer
Rendered(handler, token, a, reply, failure, report) ==
    IF a.kind = "raised"
    THEN AfterAnalysis(Answer(handler, token, 500, failure), "analyze")
    ELSE IF ~(HandlerEvaluateKeywords \subseteq EvaluateParameters)
    THEN AfterAnalysis(Answer(handler, token, 500, failure), "evaluate")
    ELSE LET llm == Evaluate(evalIn.client, FindingsDict(a.findings),
                             a.overall_risk, reply)
             llm_result ==
                 IF llm.value = NoneValue
                 THEN CreateFallbackResponse(FindingsDict(a.findings), a.overall_risk)
                 ELSE llm.value
         IN  IF DOMAIN llm_result = {}
             THEN AfterAnalysis(Answer(handler, token, 500, failure), "render")
             ELSE AfterAnalysis(Answer(handler, token, 200, report), "none")

\* the common body of results() and download_pdf() after
\* cleanup_expired_sessions(): `unpaid` is the answer to an unpaid session
Report(handler, token, store, reply, unpaid, failure, report) ==
    LET sid == VerifyToken(token)
    IN  IF IsFalsyId(sid)
        THEN Answer(handler, token, 400, "Invalid or expired token")
        ELSE IF sid \notin DOMAIN store
        THEN Answer(handler, token, 404, "Session not found or expired")
        ELSE IF PaymentRequired(store[sid]) THEN unpaid
        ELSE IF store[sid].text = <<>>
        THEN Answer(handler, token, 500, "Contract text missing")
        ELSE Rendered(handler, token, Analyze(store[sid].text), reply, failure, report)

\* the replies of the completion API that a handler's evaluate() call can meet
HandlerReplies ==
    IF HandlerEvaluateKeywords \subseteq EvaluateParameters THEN Replies
    ELSE {NoCall.reply}

\* results() after cleanup_expired_sessions(), on the store it left
ResultsAnswer(token, store, reply) ==
    Report("results", token, store, reply,
           Answer("results", token, 202, "pending_page"),
           "Analysis failed", "results_page")

\* a download_pdf() that treats every stored session as paid
DownloadPdfUnchecked(token, store, reply) ==
    Report("download_pdf", token,
           [sid \in DOMAIN store |-> [store[sid] EXCEPT !.paid = TRUE]], reply,
           Answer("download_pdf", token, 402, "Payment required"),
           "PDF generation failed", "pdf")

\* download_pdf() after cleanup_expired_sessions(), on the store it left
DownloadPdfAnswer(token, store, reply) ==
    Report("download_pdf", token, store, reply,
           Answer("download_pdf", token, 402, "Payment required"),
           "PDF generation failed", "pdf")

\* GET /results?token=
Results ==
    /\ \E token \in Tokens, reply \in HandlerReplies :
        LET store == CleanupExpiredSessions(sessionStore, now)
        IN  /\ sessionStore' = store
            /\ response' = ResultsAnswer(token, store, reply)
    /\ UNCHANGED <<text, analysis, evalIn, evalOut, devMode, now, issued, fnIn, fnOut,
                   disk, frame, inflight>>

\* GET /download-pdf?token=
DownloadPdf ==
    /\ \E token \in Tokens, reply \in HandlerReplies :
        LET store == CleanupExpiredSessions(sessionStore, now)
        IN  /\ sessionStore' = store
            /\ response' = DownloadPdfAnswer(token, store, reply)
    /\ UNCHANGED <<text, analysis, evalIn, evalOut, devMode, now, issued, fnIn, fnOut,
                   disk, frame, inflight>>

(***************************************************************************)
(* Spec: the web application from startup.  Production mode starts only    *)
(* with an LLM API key; demo mode starts with or without one.              *)
(***************************************************************************)
Init ==
    /\ text = <<>>
    /\ analysis = NotCalled
    /\ devMode \in BOOLEAN
    /\ \E c \in BOOLEAN :
        /\ ~devMode => c
        /\ evalIn = [client |-> c, call |-> NoCall]
    /\ evalOut = NotCalled
    /\ now = 0
    /\ sessionStore = <<>>
    /\ issued = {}
    /\ response = NotCalled
    /\ fnIn = NotCalled
    /\ fnOut = NotCalled
    /\ disk = <<>>
    /\ frame = NotCalled
    /\ inflight = {}

Next ==
    \/ Index
    \/ GetConfig
    \/ UploadContract
    \/ StripeWebhook
    \/ Results
    \/ DownloadPdf
    \/ Tick

Spec == Init /\ [][Next]_vars

(***************************************************************************)
(* Properties of the web application.                                      *)
(***************************************************************************)
\* the last request was GET /results or GET /download-pdf
ReportRequested ==
    response # NotCalled /\ response.handler \in {"results", "download_pdf"}

\* the session the last report request named exists and is unpaid
UnpaidSessionRequested ==
    /\ ReportRequested
    /\ VerifyToken(response.request) \in DOMAIN sessionStore
    /\ ~sessionStore[VerifyToken(response.request)].paid

\* C2: in production mode a request for the report of a session whose paid
\* flag is false never runs the analysis and never returns report content:
\* /results answers 202 with the payment-pending page, /download-pdf answers
\* 402.
C2_UnpaidGetsNoReport ==
    (~devMode /\ UnpaidSessionRequested) =>
        /\ ~response.analysis_ran
        /\ response.body \notin {"results_page", "pdf"}
        /\ response.handler = "results" =>
              response.status = 202 /\ response.body = "pending_page"
        /\ response.handler = "download_pdf" => response.status = 402

\* /results answered an unpaid session of a production deployment
C2_Witness ==
    /\ ~devMode
    /\ UnpaidSessionRequested
    /\ response.handler = "results"
    /\ response.status = 202

\* the event that pays for session sid of the store
PaysFor(event, store, sid) ==
    /\ event.signed
    /\ event.type = "checkout.session.completed"
    /\ event.client_reference_id = sid
    /\ event.id = store[sid].stripe_session_id

\* C3: in production mode every step leaves the paid flag of every session
\* unchanged, except a webhook step on a signature-verified
\* "checkout.session.completed" event whose client_reference_id is the
\* session's id and whose id is the provider session id stored for it, which
\* takes the flag from false to true; a session starts unpaid.
C3_PaidOnlyByVerifiedWebhook ==
    [][~devMode =>
        /\ \A sid \in DOMAIN sessionStore \cap DOMAIN sessionStore' :
              sessionStore'[sid].paid # sessionStore[sid].paid =>
                  /\ ~sessionStore[sid].paid
                  /\ sessionStore'[sid].paid
                  /\ response'.handler = "stripe_webhook"
                  /\ PaysFor(response'.request, sessionStore, sid)
        /\ \A sid \in DOMAIN sessionStore' \ DOMAIN sessionStore :
              ~sessionStore'[sid].paid]_vars

\* the webhook marked a production session paid
C3_Witness ==
    /\ ~devMode
    /\ response # NotCalled
    /\ response.handler = "stripe_webhook"
    /\ response.status = 200
    /\ \E sid \in DOMAIN sessionStore :
          /\ PaysFor(response.request, sessionStore, sid)
          /\ sessionStore[sid].paid

\* C6: GET /results for a session that passed the token, existence and
\* payment checks and has stored text never answers with an error raised by
\* the evaluator step.
C6_ResultsSurvivesEvaluator ==
    (response # NotCalled /\ response.handler = "results") =>
        ~(response.status >= 400 /\ response.failed_at = "evaluate")

\* the upload passes every check of the handler and, in production mode, the
\* checkout session is created
UploadAcceptable(req) ==
    /\ req.filename # ""
    /\ SplitextLower(req.filename) \in {".pdf", ".docx", ".txt"}
    /\ req.size >= 1
    /\ req.size <= 10485760
    /\ req.parsed
    /\ ~IsBlankText(req.contract_text)
    /\ devMode \/ req.checkout_ok

\* C14: a POST /upload step adds exactly one session, holding the uploaded
\* text, and redirects if the upload passes every check (file name,
\* extension, 1 to 10,485,760 bytes, non-blank text, and in production mode
\* a created checkout session); otherwise it answers with an error status
\* and adds no session.
C14_UploadAddsSessionIffAccepted ==
    [][(/\ response' # NotCalled
        /\ response'.handler = "upload_contract"
        /\ now' = now) =>
        IF UploadAcceptable(response'.request)
        THEN /\ response'.status = 303
             /\ \E sid \in DOMAIN sessionStore' \ DOMAIN sessionStore :
                   /\ DOMAIN sessionStore' \ DOMAIN sessionStore = {sid}
                   /\ sessionStore'[sid].text = response'.request.contract_text
        ELSE /\ response'.status >= 400
             /\ DOMAIN sessionStore' \subseteq DOMAIN sessionStore]_vars

\* a payload of exactly 10,485,760 bytes was accepted and stored
C14_Witness ==
    /\ response # NotCalled
    /\ response.handler = "upload_contract"
    /\ response.request.size = 10485760
    /\ response.status = 303
    /\ \E sid \in DOMAIN sessionStore :
          sessionStore[sid].text = response.request.contract_text

\* a step of results() or download_pdf(): the clock stands still and the
\* answer is the handler's
ReportStep ==
    /\ now' = now
    /\ response' # NotCalled
    /\ response'.handler \in {"results", "download_pdf"}

\* C15: a session is never served after it expires: a request to /results
\* or /download-pdf made at a time later than the session's expires_at
\* removes the session from the store and answers 404 for its token, paid or
\* not, valid token or not.
C15_ExpiredSessionNeverServed ==
    [][ReportStep =>
        \A sid \in DOMAIN sessionStore :
            sessionStore[sid].expires_at < now =>
                /\ sid \notin DOMAIN sessionStore'
                /\ VerifyToken(response'.request) = sid =>
                      /\ response'.status = 404
                      /\ ~response'.analysis_ran]_vars

\* In demo mode every issued session was stored as paid, so a 404 for the
\* valid token of an issued session is the answer to an expired paid one.
C15_Witness ==
    /\ devMode
    /\ now > SessionTtl
    /\ response # NotCalled
    /\ response.handler \in {"results", "download_pdf"}
    /\ response.status = 404
    /\ VerifyToken(response.request) \in issued \ DOMAIN sessionStore

\* the answer of the other report handler to the request just answered, from
\* the same store at the same time
OtherAnswer ==
    IF response'.handler = "results"
    THEN DownloadPdfAnswer(response'.request,
                           CleanupExpiredSessions(sessionStore, now), NoCall.reply)
    ELSE ResultsAnswer(response'.request,
                       CleanupExpiredSessions(sessionStore, now), NoCall.reply)

\* the request just answered names a stored session that still needs payment
UnpaidRequest ==
    /\ ~devMode
    /\ VerifyToken(response'.request) \in DOMAIN sessionStore'
    /\ ~sessionStore'[VerifyToken(response'.request)].paid

VerifiedEventAnswered ==
    /\ ~devMode
    /\ response # NotCalled
    /\ response.handler = "stripe_webhook"
    /\ response.request.signed

\* C17: in production mode the webhook acknowledges success for every event
\* the provider delivered (every event whose signature verified): whatever
\* its type, whether its session reference is stored, unknown, absent or
\* mismatching, and whether or not a session was marked paid, the answer is
\* 200 {"status": "ok"}.
C17_WebhookAlwaysAcknowledges ==
    VerifiedEventAnswered =>
        /\ response.status = 200
        /\ response.body = "ok"

\* acknowledged although nothing was marked paid: the reference is unknown,
\* or the stored checkout id differs from the event's
C17_Witness ==
    /\ VerifiedEventAnswered
    /\ response.status = 200
    /\ response.request.type = "checkout.session.completed"
    /\ \/ response.request.client_reference_id \notin DOMAIN sessionStore
       \/ /\ StripeIdMismatch(
                 sessionStore[response.request.client_reference_id].stripe_session_id,
                 response.request.id)
          /\ ~sessionStore[response.request.client_reference_id].paid

\* a step of a request handler: the clock stands still and the handler
\* leaves its answer
HandlerStep ==
    /\ now' = now
    /\ response' # NotCalled

\* C27: every request handler (/, /upload, /stripe-webhook, /results,
\* /download-pdf, /config) removes the sessions whose expires_at has passed
\* before it does anything else, so after a handler ran no expired session
\* is left in the store, and the webhook handler never marks an expired
\* session paid.
C27_EveryHandlerCleansUpFirst ==
    [][HandlerStep =>
        /\ \A sid \in DOMAIN sessionStore' : ~(sessionStore'[sid].expires_at < now)
        /\ \A sid \in DOMAIN sessionStore :
              (sessionStore[sid].expires_at < now /\ ~sessionStore[sid].paid)
              => ~(sid \in DOMAIN sessionStore' /\ sessionStore'[sid].paid)]_vars

\* the fields of a stored session and what the mode of the application
\* makes of them
SessionWellFormed(entry) ==
    /\ DOMAIN entry = {"paid", "text", "filename", "stripe_session_id", "expires_at"}
    /\ ~IsBlankText(entry.text)
    /\ entry.filename # ""
    /\ entry.paid \in BOOLEAN
    /\ devMode => (entry.paid /\ entry.stripe_session_id = NoStripeId)
    /\ ~devMode => entry.stripe_session_id # NoStripeId

\* C28: every session of the store has a non-blank text, a filename, a paid
\* flag and an expires_at 24 hours after the moment it was stored; a demo
\* session is paid and has no provider session id, a production session has
\* one; text, filename, provider session id and expires_at of a stored
\* session never change.
C28_SessionsWellFormedAndStable ==
    [][/\ \A sid \in DOMAIN sessionStore' : SessionWellFormed(sessionStore'[sid])
       /\ \A sid \in DOMAIN sessionStore' \ DOMAIN sessionStore :
             sessionStore'[sid].expires_at = now + SessionTtl
       /\ \A sid \in DOMAIN sessionStore \cap DOMAIN sessionStore' :
             /\ sessionStore'[sid].text = sessionStore[sid].text
             /\ sessionStore'[sid].filename = sessionStore[sid].filename
             /\ sessionStore'[sid].stripe_session_id = sessionStore[sid].stripe_session_id
             /\ sessionStore'[sid].expires_at = sessionStore[sid].expires_at]_vars

\* a production session that the webhook marked paid is in the store next
\* to one that is still unpaid
C28_Witness ==
    /\ ~devMode
    /\ \E sid, other \in DOMAIN sessionStore :
          /\ sessionStore[sid].paid
          /\ ~sessionStore[other].paid
          /\ sessionStore[other].expires_at > sessionStore[sid].expires_at

(***************************************************************************)
(* SpecToken: sign_token and verify_token applied to strings of up to      *)
(* MaxSegments colon-separated segments.                                   *)
(***************************************************************************)
MaxSegments == 2

SegmentTexts == {"", "a", "b"}

\* the strings of 1..MaxSegments plain segments: "", "a", "a:b", ":a", ...
PlainStrings ==
    UNION {[1..n -> {<<c>> : c \in SegmentTexts}] : n \in 1..MaxSegments}

SigningKeys == {AppHmacSecret, "guess"}

\* the tokens handed to verify_token: plain strings (no signature, or no
\* colon at all), and a string followed by the digest of some string under
\* some key
TokenInputs ==
    PlainStrings
    \cup {id \o HmacHex(key, signed) :
            id \in PlainStrings, key \in SigningKeys, signed \in PlainStrings}

InitToken ==
    /\ text = <<>>
    /\ analysis = NotCalled
    /\ evalIn = NotCalled
    /\ evalOut = NotCalled
    /\ WebIdle

SignTokenCall ==
    /\ fnOut = NotCalled
    /\ \E session_id \in PlainStrings :
        /\ fnIn' = [fn |-> "sign_token", arg |-> session_id]
        /\ fnOut' = [kind |-> "returned", value |-> SignToken(session_id)]
    /\ UNCHANGED <<text, analysis, evalIn, evalOut, devMode, now, sessionStore, issued,
                   response,
                   disk, frame, inflight>>

VerifyTokenCall ==
    /\ fnOut = NotCalled
    /\ \E token \in TokenInputs :
        /\ fnIn' = [fn |-> "verify_token", arg |-> token]
        /\ fnOut' = VerifyTokenOutcome(token)
    /\ UNCHANGED <<text, analysis, evalIn, evalOut, devMode, now, sessionStore, issued,
                   response,
                   disk, frame, inflight>>

NextToken == SignTokenCall \/ VerifyTokenCall

SpecToken == InitToken /\ [][NextToken]_vars

Verified == fnOut # NotCalled /\ fnIn.fn = "verify_token"

\* C13: verify_token returns id on sign_token(id) for every id; it returns
\* None, and raises nothing, on a token without a colon and on a token whose
\* part after the last colon is not the HMAC of the part before it.
C13_TokenRoundTrip ==
    Verified =>
        /\ fnOut.kind = "returned"
        /\ \A id \in PlainStrings :
              fnIn.arg = SignToken(id) => fnOut.value = id
        /\ Len(fnIn.arg) < 2 => fnOut.value = NoSession
        /\ (/\ Len(fnIn.arg) >= 2
            /\ <<fnIn.arg[Len(fnIn.arg)]>> #
                  HmacHex(AppHmacSecret, SubSeq(fnIn.arg, 1, Len(fnIn.arg) - 1)))
              => fnOut.value = NoSession

\* verify_token gave back an id that itself holds a colon
C13_Witness ==
    /\ Verified
    /\ fnOut.value # NoSession
    /\ Len(fnOut.value) = 2
    /\ fnIn.arg = SignToken(fnOut.value)

(***************************************************************************)
(* main.py: the issue list that results() (lines 576-634) and              *)
(* download_pdf() (lines 744-795) build from findings_dict and from        *)
(* llm_result["top_issues"], the lines a handler reaches after evaluate()  *)
(* returned.  A dict is a function from keys to values, a title is the     *)
(* sequence of its words, None and the empty dict are both <<>>.           *)
(***************************************************************************)
LowerWord(w) ==
    CASE w = "Confidentiality" -> "confidentiality"
      [] w = "Potentially" -> "potentially"
      [] OTHER -> w

\* title.lower()
Lower(title) == [i \in DOMAIN title |-> LowerWord(title[i])]

\* a in b, for two strings of whole words
In(a, b) == \E i \in 0..(Len(b) - Len(a)) : SubSeq(b, i + 1, i + Len(a)) = a

\* llm_issues_map after the loop over top_issues[k..]: a dict keeps the
\* place of a key's first insertion and the value of its last
RECURSIVE LlmIssuesMap(_, _)
LlmIssuesMap(top_issues, map) ==
    IF top_issues = <<>> THEN map
    ELSE LET issue == Head(top_issues)
             issue_title == Lower(Get(issue, "title", <<>>))
             entry == [key |-> issue_title, data |-> issue]
         IN  LlmIssuesMap(Tail(top_issues),
                 IF \E i \in DOMAIN map : map[i].key = issue_title
                 THEN [i \in DOMAIN map |->
                          IF map[i].key = issue_title THEN entry ELSE map[i]]
                 ELSE Append(map, entry))

NoLlmIssue == <<>>

\* the first entry of llm_issues_map whose title holds, or is held by, the
\* finding's title
MatchingIssue(finding_title, map) ==
    LET hits == {i \in DOMAIN map : \/ In(finding_title, map[i].key)
                                    \/ In(map[i].key, finding_title)}
    IN  IF hits = {} THEN NoLlmIssue
        ELSE map[CHOOSE i \in hits : \A j \in hits : i <= j].data

\* enhanced_issue for one finding; download_pdf() adds matched_excerpt
EnhancedIssue(finding, llm_issue, pdf) ==
    LET base ==
            IF DOMAIN llm_issue # {}
            THEN SetItem(llm_issue, "severity",
                         Get(finding, "severity", Get(llm_issue, "severity", "low")))
            ELSE [title |-> Get(finding, "title", <<>>),
                  severity |-> Get(finding, "severity", "low"),
                  why_it_matters |->
                      Get(finding, "rationale",
                          "This may indicate increased contractual risk."),
                  negotiation_consideration |->
                      "Commonly negotiated; consider clarifying scope, caps, and mutuality."]
        with_clause ==
            IF Get(finding, "clause_number", NoClause) # NoClause
            THEN SetItem(base, "clause_number", finding["clause_number"])
            ELSE base
        with_keywords ==
            IF Get(finding, "matched_keywords", <<>>) # <<>>
            THEN SetItem(with_clause, "matched_keywords", finding["matched_keywords"])
            ELSE with_clause
    IN  IF pdf /\ Get(finding, "matched_excerpt", "") # ""
        THEN SetItem(with_keywords, "matched_excerpt", finding["matched_excerpt"])
        ELSE with_keywords

\* the loop over findings_dict: a finding whose rule_id was seen is skipped;
\* each entry pairs the issue with the finding it was built from
RECURSIVE EnhanceAll(_, _, _, _)
EnhanceAll(findings_dict, map, seen_rule_ids, pdf) ==
    IF findings_dict = <<>> THEN <<>>
    ELSE LET finding == Head(findings_dict)
             rule_id == Get(finding, "rule_id", "")
         IN  IF rule_id \in seen_rule_ids
             THEN EnhanceAll(Tail(findings_dict), map, seen_rule_ids, pdf)
             ELSE <<[issue |-> EnhancedIssue(
                                   finding,
                                   MatchingIssue(Lower(Get(finding, "title", <<>>)), map),
                                   pdf),
                     finding |-> finding]>>
                  \o EnhanceAll(Tail(findings_dict), map,
                                seen_rule_ids \cup {rule_id}, pdf)

\* severity_order.get(severity, 9)
SeverityOrder(severity) ==
    CASE severity = "high" -> 0
      [] severity = "medium" -> 1
      [] severity = "low" -> 2
      [] OTHER -> 9

\* the words of the titles in the order of Python's string comparison
WordOrder ==
    <<"/", "Confidentiality", "Potentially", "be", "confidentiality", "indefinite",
      "indemnification", "may", "perpetual", "potentially", "unlimited">>

WordRank(w) == CHOOSE i \in DOMAIN WordOrder : WordOrder[i] = w

\* a < b for two titles
RECURSIVE TitleLess(_, _)
TitleLess(a, b) ==
    IF b = <<>> THEN FALSE
    ELSE IF a = <<>> THEN TRUE
    ELSE IF Head(a) = Head(b) THEN TitleLess(Tail(a), Tail(b))
    ELSE WordRank(Head(a)) < WordRank(Head(b))

\* the sort key (severity_order, title) of x is less than that of y
IssueLess(x, y) ==
    LET sx == SeverityOrder(Get(x, "severity", "low"))
        sy == SeverityOrder(Get(y, "severity", "low"))
    IN  \/ sx < sy
        \/ sx = sy /\ TitleLess(Get(x, "title", <<>>), Get(y, "title", <<>>))

\* list.sort is stable: an entry goes behind every entry not greater than it
RECURSIVE InsertIssue(_, _)
InsertIssue(sorted, e) ==
    IF sorted = <<>> THEN <<e>>
    ELSE IF IssueLess(e.issue, Head(sorted).issue) THEN <<e>> \o sorted
    ELSE <<Head(sorted)>> \o InsertIssue(Tail(sorted), e)

RECURSIVE SortIssues(_, _)
SortIssues(entries, sorted) ==
    IF entries = <<>> THEN sorted
    ELSE SortIssues(Tail(entries), InsertIssue(sorted, Head(entries)))

\* what the template is given: top_issues = all_enhanced_issues after the
\* sort, findings_count = len(findings_dict); built_from[i] is the finding
\* that top_issues[i] was built from
TemplateContext(findings_dict, top_issues, pdf) ==
    LET entries == SortIssues(
                       EnhanceAll(findings_dict, LlmIssuesMap(top_issues, <<>>), {}, pdf),
                       <<>>)
    IN  [kind |-> "returned",
         top_issues |-> [i \in DOMAIN entries |-> entries[i].issue],
         built_from |-> [i \in DOMAIN entries |-> entries[i].finding],
         findings_count |-> Len(findings_dict)]

(***************************************************************************)
(* The inputs of the issue list: findings as analyze() returns them (no    *)
(* two with the same rule and clause number, high severity first), and     *)
(* top_issues as evaluate() lets them through (every title is that of a    *)
(* finding, in any letter case; further keys are not removed).             *)
(***************************************************************************)
IssueFinding(rule_id, title, severity, clause_number, matched_keywords) ==
    [rule_id |-> rule_id, title |-> title, severity |-> severity,
     rationale |-> "rationale", matched_excerpt |-> "excerpt",
     clause_number |-> clause_number, matched_keywords |-> matched_keywords]

IndemnityTitle == <<"Potentially", "unlimited", "indemnification">>
ConfidentialityTitle == <<"Confidentiality", "may", "be", "perpetual", "/", "indefinite">>

IssueFindings ==
    {IssueFinding("H_INDEM_01", IndemnityTitle, "high", c, <<"unlimited">>) :
        c \in {NoClause, "1", "2"}}
    \cup {IssueFinding("M_CONF_01", ConfidentialityTitle, "medium", c, k) :
            c \in {NoClause, "1", "2"}, k \in {<<>>, <<"confidential", "perpetual">>}}

IssueFindingLists ==
    {fs \in UNION {[1..n -> IssueFindings] : n \in 0..MaxFindings} :
        \A i, j \in DOMAIN fs :
            i < j => /\ SeverityOrder(fs[i].severity) <= SeverityOrder(fs[j].severity)
                     /\ \/ fs[i].rule_id # fs[j].rule_id
                        \/ fs[i].clause_number # fs[j].clause_number}

LlmIssue(title, severity) ==
    [title |-> title, severity |-> severity, why_it_matters |-> "why",
     negotiation_consideration |-> "consider"]

LlmIssues ==
    {SetItem(SetItem(LlmIssue(ConfidentialityTitle, "low"), "clause_number", "7"),
             "matched_keywords", <<"forever">>),
     LlmIssue(Lower(ConfidentialityTitle), "high"),
     SetItem(LlmIssue(IndemnityTitle, "high"), "clause_number", "7")}

LlmIssueLists(findings_dict) ==
    {issues \in UNION {[1..n -> LlmIssues] : n \in 0..MaxFindings} :
        \A i \in DOMAIN issues : \E j \in DOMAIN findings_dict :
            Lower(issues[i].title) = Lower(findings_dict[j].title)}

(***************************************************************************)
(* SpecIssues: the issue list built once, for the results page or for the  *)
(* PDF report.                                                             *)
(***************************************************************************)
InitIssues ==
    /\ text = <<>>
    /\ analysis = NotCalled
    /\ evalIn = NotCalled
    /\ evalOut = NotCalled
    /\ WebIdle

ResultsIssues ==
    /\ fnOut = NotCalled
    /\ \E findings_dict \in IssueFindingLists :
        \E top_issues \in LlmIssueLists(findings_dict) :
            /\ fnIn' = [fn |-> "results", findings_dict |-> findings_dict,
                        top_issues |-> top_issues]
            /\ fnOut' = TemplateContext(findings_dict, top_issues, FALSE)
    /\ UNCHANGED <<text, analysis, evalIn, evalOut, devMode, now, sessionStore, issued,
                   response,
                   disk, frame, inflight>>

DownloadPdfIssues ==
    /\ fnOut = NotCalled
    /\ \E findings_dict \in IssueFindingLists :
        \E top_issues \in LlmIssueLists(findings_dict) :
            /\ fnIn' = [fn |-> "download_pdf", findings_dict |-> findings_dict,
                        top_issues |-> top_issues]
            /\ fnOut' = TemplateContext(findings_dict, top_issues, TRUE)
    /\ UNCHANGED <<text, analysis, evalIn, evalOut, devMode, now, sessionStore, issued,
                   response,
                   disk, frame, inflight>>

NextIssues == ResultsIssues \/ DownloadPdfIssues

SpecIssues == InitIssues /\ [][NextIssues]_vars

IssuesBuilt == fnOut # NotCalled /\ fnIn.fn \in {"results", "download_pdf"}

\* C18: the issue list given to the results page and to the PDF report has
\* one entry for every finding of analyze(): as many issues as findings_count.
C18_OneIssuePerFinding ==
    IssuesBuilt =>
        /\ fnOut.findings_count = Len(fnIn.findings_dict)
        /\ Len(fnOut.top_issues) = fnOut.findings_count

\* C19: every issue on the results page carries the severity, the clause
\* number and the matched keywords of the finding it was built from, none
\* where the finding has none, whatever the model's top_issue carried.
C19_FindingTakesPrecedence ==
    (IssuesBuilt /\ fnIn.fn = "results") =>
        \A i \in DOMAIN fnOut.top_issues :
            /\ Get(fnOut.top_issues[i], "severity", "low") = fnOut.built_from[i].severity
            /\ Get(fnOut.top_issues[i], "clause_number", NoClause)
                  = fnOut.built_from[i].clause_number
            /\ Get(fnOut.top_issues[i], "matched_keywords", <<>>)
                  = fnOut.built_from[i].matched_keywords

(***************************************************************************)
(* experiments/metrics.py: compute_fp_fn_hybrid.  A list is a sequence, a  *)
(* dict a function from keys to values, the empty dict is <<>>.            *)
(***************************************************************************)
\* set(items): the elements are added one after the other
RECURSIVE SetOf(_)
SetOf(items) == IF items = <<>> THEN {} ELSE {Head(items)} \cup SetOf(Tail(items))

\* {f.get("rule_id", "") for f in findings}
RECURSIVE FoundRuleIds(_)
FoundRuleIds(findings) ==
    IF findings = <<>> THEN {}
    ELSE {Get(Head(findings), "rule_id", "")} \cup FoundRuleIds(Tail(findings))

\* a count with one unit for every finding whose rule_id should be absent
FalsePositivesPerFinding(findings, expected_absent) ==
    Cardinality({i \in DOMAIN findings :
                    Get(findings[i], "rule_id", "") \in expected_absent})

\* fp = len(found_rule_ids & expected_absent)
FalsePositives(findings, expected_absent) ==
    Cardinality(FoundRuleIds(findings) \cap expected_absent)

\* fn = len(expected_present - found_rule_ids)
FalseNegatives(findings, expected_present) ==
    Cardinality(expected_present \ FoundRuleIds(findings))

ComputeFpFnHybrid(output_json, truth) ==
    LET findings == Get(output_json, "findings", <<>>)
        expected_present == SetOf(Get(truth, "expected_rule_ids_present", <<>>))
        expected_absent == SetOf(Get(truth, "expected_rule_ids_absent", <<>>))
    IN  [kind |-> "returned",
         fp |-> FalsePositives(findings, expected_absent),
         fn |-> FalseNegatives(findings, expected_present)]

\* the inputs: findings with a rule id A..D or with none, truth records with
\* lists of up to two rule ids, and records without the keys
MetricRuleIds == {"A", "B", "C", "D"}

MetricFindings ==
    {[rule_id |-> r, severity |-> "high"] : r \in MetricRuleIds}
    \cup {[severity |-> "high"]}

OutputJsons ==
    {<<>>}
    \cup {[findings |-> fs] :
            fs \in UNION {[1..n -> MetricFindings] : n \in 0..MaxFindings}}

RuleIdLists ==
    {<<>>} \cup {<<a>> : a \in MetricRuleIds} \cup {<<a, b>> : a, b \in MetricRuleIds}

Truths ==
    {<<>>}
    \cup {[expected_rule_ids_present |-> p, expected_rule_ids_absent |-> a] :
            p, a \in RuleIdLists}

(***************************************************************************)
(* SpecMetrics: one call of compute_fp_fn_hybrid.                          *)
(***************************************************************************)
InitMetrics ==
    /\ text = <<>>
    /\ analysis = NotCalled
    /\ evalIn = NotCalled
    /\ evalOut = NotCalled
    /\ WebIdle

ComputeFpFnHybridCall ==
    /\ fnOut = NotCalled
    /\ \E output_json \in OutputJsons, truth \in Truths :
        /\ fnIn' = [fn |-> "compute_fp_fn_hybrid", output_json |-> output_json,
                    truth |-> truth]
        /\ fnOut' = ComputeFpFnHybrid(output_json, truth)
    /\ UNCHANGED <<text, analysis, evalIn, evalOut, devMode, now, sessionStore, issued,
                   response,
                   disk, frame, inflight>>

NextMetrics == ComputeFpFnHybridCall

SpecMetrics == InitMetrics /\ [][NextMetrics]_vars

FpFnComputed == fnOut # NotCalled /\ fnIn.fn = "compute_fp_fn_hybrid"

\* the findings handed to the call, and the rule ids F found among them
CallFindings == Get(fnIn.output_json, "findings", <<>>)
F == {r \in MetricRuleIds \cup {""} :
        \E i \in DOMAIN CallFindings : Get(CallFindings[i], "rule_id", "") = r}
\* the expected-present set P and the expected-absent set A of the truth record
P == {r \in MetricRuleIds :
        \E i \in DOMAIN Get(fnIn.truth, "expected_rule_ids_present", <<>>) :
            fnIn.truth["expected_rule_ids_present"][i] = r}
A == {r \in MetricRuleIds :
        \E i \in DOMAIN Get(fnIn.truth, "expected_rule_ids_absent", <<>>) :
            fnIn.truth["expected_rule_ids_absent"][i] = r}

\* C20: compute_fp_fn_hybrid returns fp = |F /\ A| and fn = |P \ F| for the
\* set F of found rule ids and the truth record's sets P and A; findings
\* that share a rule_id count once.
C20_FpFnArithmetic ==
    FpFnComputed =>
        /\ fnOut.fp = Cardinality(F \cap A)
        /\ fnOut.fn = Cardinality(P \ F)

\* two findings of rule B, present {A, B}, absent {B, D}: fp = 1 (B, once)
\* and fn = 1 (A)
C20_Witness ==
    /\ FpFnComputed
    /\ F = {"B"} /\ Len(CallFindings) = 2
    /\ P = {"A", "B"} /\ A = {"B", "D"}
    /\ fnOut.fp = 1 /\ fnOut.fn = 1

(***************************************************************************)
(* experiments/run_all.py: main().  `disk` maps each portion of the corpus *)
(* to the numbers of its text files; `frame` holds main()'s position, the  *)
(* steps it has called in order, the steps that raised, and its locals.    *)
(* Every step is a call that returns rows or raises an Exception.          *)
(***************************************************************************)
MaxRuns == 2

NumPublicNdas == 30
NumSyntheticNdas == 30
NumSyntheticMsas == 20
NumSyntheticEmployment == 20
NumSyntheticLicensing == 15

\* the lengths of the builders' lists of test cases
SyntheticNdaCases == 16
MsaCases == 20
EmploymentCases == 20
LicensingCases == 15

Portions == {"public_nda", "synthetic_nda", "msa", "employment", "licensing"}

\* the file count a portion must reach for its build to be skipped
Target(portion) ==
    CASE portion = "public_nda" -> NumPublicNdas
      [] portion = "synthetic_nda" -> NumSyntheticNdas
      [] portion = "msa" -> NumSyntheticMsas
      [] portion = "employment" -> NumSyntheticEmployment
      [] portion = "licensing" -> NumSyntheticLicensing

\* the files a builder writes: range(1, NUM_PUBLIC_NDAS + 1),
\* test_cases[:NUM_SYNTHETIC_NDAS], and one file per entry of TEST_CASES
BuiltFiles(portion) ==
    CASE portion = "public_nda" -> 1..NumPublicNdas
      [] portion = "synthetic_nda" -> 1..Min(SyntheticNdaCases, NumSyntheticNdas)
      [] portion = "msa" -> 1..MsaCases
      [] portion = "employment" -> 1..EmploymentCases
      [] portion = "licensing" -> 1..LicensingCases

\* len(files) < NUM_...
NeedsBuild(files, portion) == Cardinality(files[portion]) < Target(portion)

StepOrder == <<"exp1", "exp2", "exp3", "exp4", "statistics", "report">>

Unbound == <<"unbound">>
NoRows == <<>>
Rows == <<"row">>

\* main()'s frame on entry
NewFrame(run) ==
    [kind |-> "running", run |-> run, pc |-> "dataset", steps |-> <<>>,
     failed |-> {}, built |-> {},
     exp1_results |-> Unbound, exp2_results |-> Unbound, exp3_results |-> Unbound,
     exp4_issues |-> Unbound, stats_results |-> Unbound,
     baseline_executed |-> FALSE, results_path |-> Unbound, exception |-> "none"]

At(pc) == frame # NotCalled /\ frame.kind = "running" /\ frame.pc = pc

\* the frame after a step: the local the step assigns, rows if the step
\* returned and the empty collection if it raised
AfterStep(f, step, local, raised, next) ==
    [f EXCEPT !.steps = Append(@, step),
              !.failed = IF raised THEN @ \cup {step} ELSE @,
              ![local] = IF raised THEN NoRows ELSE Rows,
              !.pc = next]

\* the frame after step 6: results_path is assigned after
\* generate_results_md() returned and before save_text(); the except clause
\* assigns nothing
AfterReport(f, outcome) ==
    [f EXCEPT !.steps = Append(@, "report"),
              !.failed = IF outcome = "returned" THEN @ ELSE @ \cup {"report"},
              !.results_path = IF outcome = "generate_results_md raised" THEN @
                               ELSE <<"RESULTS.md">>,
              !.pc = "summary"]

\* python -m experiments.run_all
StartMain ==
    /\ \/ frame = NotCalled
       \/ frame.kind \in {"returned", "raised"} /\ frame.run < MaxRuns
    /\ frame' = NewFrame(IF frame = NotCalled THEN 1 ELSE frame.run + 1)
    /\ UNCHANGED <<text, analysis, evalIn, evalOut, devMode, now, sessionStore, issued,
                   response, fnIn, fnOut, disk, inflight>>

\* step 0: every portion with fewer files than its target is built
BuildDataset ==
    /\ At("dataset")
    /\ disk' = [p \in Portions |->
                   IF NeedsBuild(disk, p) THEN disk[p] \cup BuiltFiles(p) ELSE disk[p]]
    /\ frame' = [frame EXCEPT !.built = {p \in Portions : NeedsBuild(disk, p)},
                              !.pc = "exp1"]
    /\ UNCHANGED <<text, analysis, evalIn, evalOut, devMode, now, sessionStore, issued,
                   response, fnIn, fnOut, inflight>>

\* step 1: run_experiment_1() and save_csv; baseline_executed comes from the
\* experiment or, if it raised, from the artifacts on disk
Experiment1 ==
    /\ At("exp1")
    /\ \E raised \in BOOLEAN, baseline_executed \in BOOLEAN :
        frame' = [AfterStep(frame, "exp1", "exp1_results", raised, "exp2")
                    EXCEPT !.baseline_executed = baseline_executed]
    /\ UNCHANGED <<text, analysis, evalIn, evalOut, devMode, now, sessionStore, issued,
                   response, fnIn, fnOut, disk, inflight>>

Experiment2 ==
    /\ At("exp2")
    /\ \E raised \in BOOLEAN :
        frame' = AfterStep(frame, "exp2", "exp2_results", raised, "exp3")
    /\ UNCHANGED <<text, analysis, evalIn, evalOut, devMode, now, sessionStore, issued,
                   response, fnIn, fnOut, disk, inflight>>

Experiment3 ==
    /\ At("exp3")
    /\ \E raised \in BOOLEAN :
        frame' = AfterStep(frame, "exp3", "exp3_results", raised, "exp4")
    /\ UNCHANGED <<text, analysis, evalIn, evalOut, devMode, now, sessionStore, issued,
                   response, fnIn, fnOut, disk, inflight>>

Experiment4 ==
    /\ At("exp4")
    /\ \E raised \in BOOLEAN :
        frame' = AfterStep(frame, "exp4", "exp4_issues", raised, "statistics")
    /\ UNCHANGED <<text, analysis, evalIn, evalOut, devMode, now, sessionStore, issued,
                   response, fnIn, fnOut, disk, inflight>>

\* step 5: compute_all_statistics() and save_json
Statistics ==
    /\ At("statistics")
    /\ \E raised \in BOOLEAN :
        frame' = AfterStep(frame, "statistics", "stats_results", raised, "report")
    /\ UNCHANGED <<text, analysis, evalIn, evalOut, devMode, now, sessionStore, issued,
                   response, fnIn, fnOut, disk, inflight>>

\* step 6: generate_results_md() and save_text
GenerateReport ==
    /\ At("report")
    /\ \E outcome \in {"returned", "generate_results_md raised", "save_text raised"} :
        frame' = AfterReport(frame, outcome)
    /\ UNCHANGED <<text, analysis, evalIn, evalOut, devMode, now, sessionStore, issued,
                   response, fnIn, fnOut, disk, inflight>>

\* the final check of the baseline artifacts and the closing prints, which
\* read results_path
Summary ==
    /\ At("summary")
    /\ \E from_artifacts \in BOOLEAN :
        frame' = [frame EXCEPT
                    !.baseline_executed = @ \/ from_artifacts,
                    !.pc = "done",
                    !.kind = IF frame.results_path = Unbound THEN "raised" ELSE "returned",
                    !.exception = IF frame.results_path = Unbound
                                  THEN "UnboundLocalError" ELSE "none"]
    /\ UNCHANGED <<text, analysis, evalIn, evalOut, devMode, now, sessionStore, issued,
                   response, fnIn, fnOut, disk, inflight>>

\* the corpus directories before the first run: absent or empty, or as an
\* earlier build left them
Disks == [Portions -> {"empty", "built"}]

InitRunAll ==
    /\ text = <<>>
    /\ analysis = NotCalled
    /\ evalIn = NotCalled
    /\ evalOut = NotCalled
    /\ devMode = FALSE
    /\ now = 0
    /\ sessionStore = <<>>
    /\ issued = {}
    /\ response = NotCalled
    /\ fnIn = NotCalled
    /\ fnOut = NotCalled
    /\ \E d \in Disks :
        disk = [p \in Portions |-> IF d[p] = "empty" THEN {} ELSE BuiltFiles(p)]
    /\ frame = NotCalled
    /\ inflight = {}

NextRunAll ==
    \/ StartMain
    \/ BuildDataset
    \/ Experiment1
    \/ Experiment2
    \/ Experiment3
    \/ Experiment4
    \/ Statistics
    \/ GenerateReport
    \/ Summary

SpecRunAll == InitRunAll /\ [][NextRunAll]_vars

\* s is the beginning of t
IsPrefix(s, t) == Len(s) <= Len(t) /\ SubSeq(t, 1, Len(s)) = s

\* C21: main() calls Experiment 1, 2, 3, 4, statistics and report in this
\* order, each once; a step that raised leaves the empty collection as its
\* result, the later steps still run, and main() ends without raising.
C21_StepsRunInOrderAndMainReturns ==
    frame # NotCalled =>
        /\ IsPrefix(frame.steps, StepOrder)
        /\ "exp1" \in frame.failed => frame.exp1_results = NoRows
        /\ "exp2" \in frame.failed => frame.exp2_results = NoRows
        /\ "exp3" \in frame.failed => frame.exp3_results = NoRows
        /\ "exp4" \in frame.failed => frame.exp4_issues = NoRows
        /\ "statistics" \in frame.failed => frame.stats_results = NoRows
        /\ frame.pc = "done" => frame.steps = StepOrder
        /\ frame.kind # "raised"

\* C30: after the dataset step every portion holds at least its target
\* number of files, so a later run of main() on the same directories builds
\* nothing.
C30_DatasetStepIdempotent ==
    (frame # NotCalled /\ frame.pc # "dataset") =>
        /\ \A p \in Portions : ~NeedsBuild(disk, p)
        /\ frame.run > 1 => frame.built = {}

(***************************************************************************)
(* experiments/run_baseline_llm.py: run_baseline_llm.  The reply of the    *)
(* model is a sequence of pieces: a code fence, prose without braces, or   *)
(* the text of one JSON value, which is valid, valid once trailing commas  *)
(* are removed, or broken.  A JSON value is its Python type, whether       *)
(* `"findings" in value` holds, and whether its text holds a brace.        *)
(***************************************************************************)
MaxPieces == 2

JsonValue(type, has_findings, braces) ==
    [type |-> type, has_findings |-> has_findings, braces |-> braces]

JsonValues ==
    {JsonValue("dict", h, TRUE) : h \in BOOLEAN}
    \cup {JsonValue("list", h, FALSE) : h \in BOOLEAN}
    \cup {JsonValue("str", h, FALSE) : h \in BOOLEAN}
    \cup {JsonValue("int", FALSE, FALSE), JsonValue("NoneType", FALSE, FALSE)}

Piece(kind, form, value) == [kind |-> kind, form |-> form, value |-> value]

NoValue == JsonValue("none", FALSE, FALSE)
FenceJson == Piece("fence_json", "text", NoValue)
Fence == Piece("fence", "text", NoValue)
Prose == Piece("prose", "text", NoValue)

Pieces ==
    {FenceJson, Fence, Prose}
    \cup {Piece("json", "valid", v) : v \in JsonValues}
    \cup {Piece("json", form, JsonValue("dict", h, TRUE)) :
            form \in {"trailing_comma", "broken"}, h \in BOOLEAN}

\* the opening ```json or ``` and the closing ``` are cut off
StripFences(content) ==
    LET opened == IF content # <<>> /\ Head(content) \in {FenceJson, Fence}
                  THEN Tail(content) ELSE content
    IN  IF opened # <<>> /\ opened[Len(opened)] = Fence
        THEN SubSeq(opened, 1, Len(opened) - 1)
        ELSE opened

NoMatch == <<>>

\* json.loads(s): exactly one valid JSON value, else JSONDecodeError
Loads(s) ==
    IF Len(s) = 1 /\ s[1].kind = "json" /\ s[1].form = "valid"
    THEN [ok |-> TRUE, value |-> s[1].value]
    ELSE [ok |-> FALSE, value |-> NoValue]

HasBrace(piece) == piece.kind = "json" /\ piece.value.braces

\* re.search for a JSON object, group(0): from the first brace
\* to the last
SearchObject(content) ==
    LET at == {i \in DOMAIN content : HasBrace(content[i])}
    IN  IF at = {} THEN NoMatch
        ELSE SubSeq(content, CHOOSE i \in at : \A j \in at : i <= j,
                             CHOOSE i \in at : \A j \in at : j <= i)

\* the two re.sub calls: a comma before a closing brace or bracket is removed
DropTrailingCommas(json_str) ==
    [i \in DOMAIN json_str |->
        IF json_str[i].form = "trailing_comma"
        THEN [json_str[i] EXCEPT !.form = "valid"]
        ELSE json_str[i]]

\* the three attempts to parse the reply
ParseReply(content) ==
    IF Loads(content).ok THEN Loads(content)
    ELSE IF SearchObject(content) = NoMatch THEN Loads(NoMatch)
    ELSE IF Loads(SearchObject(content)).ok THEN Loads(SearchObject(content))
    ELSE Loads(DropTrailingCommas(SearchObject(content)))

\* the envelope of a run that was not executed
NotExecuted(error) ==
    [kind |-> "returned", executed |-> FALSE, error |-> error, findings |-> "[]",
     keys |-> {"error", "findings", "executed"}, parsed |-> "none"]

\* the keys of the parsed object, left as they are
KeepKeys(keys) == keys

\* if "findings" not in result: result["findings"] = []
EnsureFindings(keys) == keys \cup {"findings"}

\* lines 118-122 on the parsed value: the membership test or the item
\* assignment raises TypeError unless the value is a dict, and the outer
\* except clause turns that into the envelope
Finish(result) ==
    IF result.type # "dict" THEN NotExecuted("TypeError")
    ELSE [kind |-> "returned", executed |-> TRUE, error |-> "",
          findings |-> IF result.has_findings THEN "parsed" ELSE "[]",
          keys |-> EnsureFindings(IF result.has_findings THEN {"findings"} ELSE {})
                   \cup {"executed"},
          parsed |-> result.type]

\* the calls run_baseline_llm can meet: no key, an API error, a reply
\* without content, a reply of up to MaxPieces pieces
Contents == UNION {[1..n -> Pieces] : n \in 0..MaxPieces}

BaselineCalls ==
    {[api_key |-> FALSE, api |-> "not_called", content |-> <<>>],
     [api_key |-> TRUE, api |-> "raised", content |-> <<>>],
     [api_key |-> TRUE, api |-> "content_none", content |-> <<>>]}
    \cup {[api_key |-> TRUE, api |-> "replied", content |-> c] : c \in Contents}

RunBaselineLlm(call) ==
    IF ~call.api_key THEN NotExecuted("OPENAI_API_KEY not set")
    ELSE IF call.api = "raised" THEN NotExecuted("APIError")
    ELSE IF call.api = "content_none" THEN NotExecuted("AttributeError")
    ELSE LET content == StripFences(call.content)
         IN  IF ParseReply(content).ok THEN Finish(ParseReply(content).value)
             ELSE NotExecuted("JSON parse error")

(***************************************************************************)
(* SpecBaseline: one call of run_baseline_llm.                             *)
(***************************************************************************)
InitBaseline ==
    /\ text = <<>>
    /\ analysis = NotCalled
    /\ evalIn = NotCalled
    /\ evalOut = NotCalled
    /\ WebIdle

RunBaselineLlmCall ==
    /\ fnOut = NotCalled
    /\ \E call \in BaselineCalls :
        /\ fnIn' = [fn |-> "run_baseline_llm", call |-> call]
        /\ fnOut' = RunBaselineLlm(call)
    /\ UNCHANGED <<text, analysis, evalIn, evalOut, devMode, now, sessionStore, issued,
                   response, disk, frame, inflight>>

NextBaseline == RunBaselineLlmCall

SpecBaseline == InitBaseline /\ [][NextBaseline]_vars

BaselineRan == fnOut # NotCalled /\ fnIn.fn = "run_baseline_llm"

\* the reply holds a JSON object that is valid, at least once its trailing
\* commas are removed
ReplyHoldsObject ==
    \E i \in DOMAIN fnIn.call.content :
        /\ fnIn.call.content[i].kind = "json"
        /\ fnIn.call.content[i].form \in {"valid", "trailing_comma"}
        /\ fnIn.call.content[i].value.type = "dict"

\* C22: run_baseline_llm never raises.  Without an API key, on an API error
\* and on a reply without a JSON object that can be parsed it returns
\* executed = false with an error text and an empty findings list; it
\* returns executed = true only when a JSON object was parsed, and the
\* result then has a findings entry.
C22_BaselineNeverRaises ==
    BaselineRan =>
        /\ fnOut.kind = "returned"
        /\ (~fnIn.call.api_key \/ fnIn.call.api # "replied" \/ ~ReplyHoldsObject) =>
              /\ ~fnOut.executed
              /\ fnOut.error # ""
              /\ fnOut.findings = "[]"
        /\ fnOut.executed =>
              /\ fnOut.parsed = "dict"
              /\ ReplyHoldsObject
              /\ "findings" \in fnOut.keys

\* prose around an object with a trailing comma and no findings key: parsed
\* at the third attempt, findings added
C22_Witness ==
    /\ BaselineRan
    /\ fnIn.call.content = <<Prose, Piece("json", "trailing_comma",
                                           JsonValue("dict", FALSE, TRUE))>>
    /\ fnOut.executed
    /\ "findings" \in fnOut.keys

(***************************************************************************)
(* experiments/run_hybrid.py: run_hybrid_engine, as the experiments call   *)
(* it with suppression on and off.                                         *)
(***************************************************************************)
\* def analyze(self, text: str): the parameters a caller can name
AnalyzeParameters == {"text"}

\* engine.analyze(text, suppression_enabled=suppression_enabled)
AnalyzeKeywords == {"suppression_enabled"}

\* the dict run_hybrid_engine builds from the result of analyze()
HybridEnvelope(result, suppression_enabled) ==
    [kind |-> "returned",
     findings |-> result.findings,
     overall_risk |-> result.overall_risk,
     rule_counts |-> result.rule_counts,
     version |-> result.version,
     suppression_log |-> result.suppression_log,
     suppression_enabled |-> suppression_enabled]

\* run_hybrid_engine(text, suppression_enabled): binding a keyword that
\* analyze() does not declare raises TypeError before analyze() runs, and
\* nothing in run_hybrid_engine catches it
RunHybridEngine(raw, suppression_enabled) ==
    IF ~(AnalyzeKeywords \subseteq AnalyzeParameters)
    THEN [kind |-> "raised", exception |-> "TypeError"]
    ELSE LET result == Analyze(raw)
         IN  IF result.kind = "raised" THEN result
             ELSE HybridEnvelope(result, suppression_enabled)

InitHybrid ==
    /\ text \in Texts
    /\ analysis = NotCalled
    /\ evalIn = NotCalled
    /\ evalOut = NotCalled
    /\ WebIdle

\* exp3_suppression_ablation.py calls the runner with the flag on and off
RunHybridEngineCall ==
    /\ fnOut = NotCalled
    /\ \E suppression_enabled \in BOOLEAN :
          /\ fnIn' = [fn |-> "run_hybrid_engine", text |-> text,
                      suppression_enabled |-> suppression_enabled]
          /\ fnOut' = RunHybridEngine(text, suppression_enabled)
    /\ UNCHANGED <<text, analysis, evalIn, evalOut, devMode, now, sessionStore, issued,
                   response, disk, frame, inflight>>

NextHybrid == RunHybridEngineCall

SpecHybrid == InitHybrid /\ [][NextHybrid]_vars

HybridRan == fnOut # NotCalled /\ fnIn.fn = "run_hybrid_engine"

\* C23: run_hybrid_engine returns an analysis envelope for both values of
\* the flag and records the flag in it; with suppression on the envelope
\* carries the findings and the log of analyze(), with suppression off it
\* carries the deduplicated, sorted findings untouched and an empty log.
C23_HybridHonoursSuppressionFlag ==
    HybridRan =>
        /\ fnOut.kind = "returned"
        /\ fnOut.suppression_enabled = fnIn.suppression_enabled
        /\ fnIn.suppression_enabled =>
              LET production == ApplySuppressionRules(DedupedFindings(fnIn.text),
                                                      fnIn.text, <<>>, EmptyLog)
              IN  /\ fnOut.findings = production.findings
                  /\ fnOut.suppression_log = production.reasons
        /\ ~fnIn.suppression_enabled =>
              /\ fnOut.findings = DedupedFindings(fnIn.text)
              /\ fnOut.suppression_log = EmptyLog

(***************************************************************************)
(* main.py: sanitize_filename.  A filename is a sequence of characters.    *)
(***************************************************************************)
MaxParts == 3

FilenameLimit == 50

\* the characters the filenames are made of
FilenameChars == {"a", "7", "_", "-", " ", ".", "/"}

\* the members of FilenameChars in the class [a-zA-Z0-9_-]
SafeChars == {"a", "7", "_", "-"}

SetMax(S) == CHOOSE x \in S : \A y \in S : y <= x

Repeat(c, n) == [k \in 1..n |-> c]

\* PurePath.name: the last component between slashes that is neither empty
\* nor ".", which pathlib drops when it parses the path
PathName(filename) ==
    LET ends == {e \in 1..Len(filename) :
                    /\ filename[e] # "/"
                    /\ (e = Len(filename) \/ filename[e + 1] = "/")}
        StartOf(e) == SetMax({0} \cup {k \in 1..e : filename[k] = "/"}) + 1
        kept == {e \in ends : SubSeq(filename, StartOf(e), e) # <<".">>}
    IN  IF kept = {} THEN <<>>
        ELSE SubSeq(filename, StartOf(SetMax(kept)), SetMax(kept))

\* PurePath.stem: i = name.rfind("."); name[:i] if 0 < i < len(name) - 1
PathStem(filename) ==
    LET name == PathName(filename)
        dots == {k \in 1..Len(name) : name[k] = "."}
        i == SetMax(dots) - 1
    IN  IF dots # {} /\ 0 < i /\ i < Len(name) - 1 THEN SubSeq(name, 1, i) ELSE name

\* re.sub(r'[^a-zA-Z0-9_-]', '_', s)
ReplaceUnsafe(s) == [k \in 1..Len(s) |-> IF s[k] \in SafeChars THEN s[k] ELSE "_"]

\* re.sub(r'_+', '_', s)
CollapseUnderscores(s) ==
    LET kept == {k \in 1..Len(s) : ~(s[k] = "_" /\ k > 1 /\ s[k - 1] = "_")}
        Nth(j) == CHOOSE k \in kept : Cardinality({m \in kept : m <= k}) = j
    IN  [j \in 1..Cardinality(kept) |-> s[Nth(j)]]

\* s.strip('_')
StripUnderscores(s) ==
    LET other == {k \in 1..Len(s) : s[k] # "_"}
    IN  IF other = {} THEN <<>> ELSE SubSeq(s, SetMin(other), SetMax(other))

\* lines 683-687: strip, then cut to the limit
StripAndLimit(s) == Take(StripUnderscores(s), FilenameLimit)

SanitizeFilename(filename) ==
    StripAndLimit(CollapseUnderscores(ReplaceUnsafe(PathStem(filename))))

\* the runs filenames are put together from: single characters and two
\* runs one short of the limit
FilenameParts ==
    {<<c>> : c \in FilenameChars}
        \cup {Repeat("a", FilenameLimit - 1), Repeat("_", FilenameLimit - 1)}

Filenames == {Flatten(ps) : ps \in UNION {[1..n -> FilenameParts] : n \in 0..MaxParts}}

InitFilename ==
    /\ text = <<>>
    /\ analysis = NotCalled
    /\ evalIn = NotCalled
    /\ evalOut = NotCalled
    /\ WebIdle

SanitizeFilenameCall ==
    /\ fnOut = NotCalled
    /\ \E filename \in Filenames :
          /\ fnIn' = [fn |-> "sanitize_filename", filename |-> filename]
          /\ fnOut' = [kind |-> "returned", stem |-> SanitizeFilename(filename)]
    /\ UNCHANGED <<text, analysis, evalIn, evalOut, devMode, now, sessionStore, issued,
                   response, disk, frame, inflight>>

NextFilename == SanitizeFilenameCall

SpecFilename == InitFilename /\ [][NextFilename]_vars

Sanitized == fnIn # NotCalled /\ fnIn.fn = "sanitize_filename"

\* C24: the stem sanitize_filename returns holds only letters, digits,
\* underscores and hyphens, has no two underscores in a row, neither starts
\* nor ends with an underscore, and is at most 50 characters long.
C24_SanitizedStemIsClean ==
    Sanitized =>
        /\ \A k \in 1..Len(fnOut.stem) : fnOut.stem[k] \in SafeChars
        /\ \A k \in 1..(Len(fnOut.stem) - 1) : ~(fnOut.stem[k] = "_" /\ fnOut.stem[k + 1] = "_")
        /\ fnOut.stem # <<>> => fnOut.stem[1] # "_" /\ fnOut.stem[Len(fnOut.stem)] # "_"
        /\ Len(fnOut.stem) <= FilenameLimit

(***************************************************************************)
(* main.py under concurrent requests.  The handlers are coroutines on one  *)
(* event loop: a handler runs from one await to the next without another   *)
(* handler running in between.  `inflight` holds the requests that have    *)
(* started and not yet answered; a request is [handler, request, pc, keys] *)
(* where pc is the position of the handler and keys the session ids it     *)
(* holds in a local variable.  The clock advances at any moment.           *)
(***************************************************************************)
MaxInflight == 2

InflightRequest(handler, request, pc, keys) ==
    [handler |-> handler, request |-> request, pc |-> pc, keys |-> keys]

\* a scheduler that switches between handlers at every position
YieldsAnywhere(pc) == TRUE

\* the positions at which a handler gives up the event loop:
\* await file.read() and await request.body()
MayYield(pc) == pc \in {"await_read", "await_body"}

\* no handler is between two awaits: the event loop picks the next one
Quiescent == \A r \in inflight : MayYield(r.pc)

\* expired = [k for k, v in session_store.items() if ... v["expires_at"] < now]
ExpiredKeys(store, time) == {k \in DOMAIN store : store[k].expires_at < time}

\* for k in expired: del session_store[k]
DeleteKeys(store, keys) == [k \in DOMAIN store \ keys |-> store[k]]

\* the answer of a handler that raised KeyError on session_store
KeyErrorAnswer(r) ==
    [Answer(r.handler, r.request, 500, "KeyError") EXCEPT !.failed_at = "session_store"]

\* the uploads and webhook events of the concurrent runs
ConcurrentUploads ==
    {req \in UploadRequests :
        /\ req.checkout_ok
        /\ req.size \in {0, MaxUploadBytes}
        /\ req.filename \in {"nda.txt", "nda.exe"}}

ConcurrentEvents ==
    {event \in WebhookEvents :
        \/ ~event.signed
        \/ /\ event.type = "checkout.session.completed"
           /\ event.client_reference_id \in SessionIds
           /\ event.id = CheckoutId(event.client_reference_id)}

\* the rejections upload_contract raises before await file.read()
RejectionsBeforeRead ==
    {"Missing filename", "Only PDF, DOCX, or TXT files are allowed"}

\* upload_contract up to await file.read()
UploadArrives ==
    /\ Quiescent
    /\ Cardinality(inflight) < MaxInflight
    /\ Cardinality(issued)
          + Cardinality({r \in inflight : r.handler = "upload_contract"})
          < Cardinality(SessionIds)
    /\ \E req \in ConcurrentUploads :
          /\ sessionStore' = CleanupExpiredSessions(sessionStore, now)
          /\ IF UploadRejection(req) \in RejectionsBeforeRead
             THEN /\ response' = Answer("upload_contract", req, 400, UploadRejection(req))
                  /\ inflight' = inflight
             ELSE /\ InflightRequest("upload_contract", req, "await_read", {}) \notin inflight
                  /\ response' = response
                  /\ inflight' = inflight
                        \cup {InflightRequest("upload_contract", req, "await_read", {})}
    /\ UNCHANGED <<text, analysis, evalIn, evalOut, devMode, now, issued, fnIn, fnOut,
                   disk, frame>>

\* upload_contract from await file.read() to its answer
UploadResumes ==
    /\ Quiescent
    /\ \E r \in inflight :
          /\ r.handler = "upload_contract"
          /\ r.pc = "await_read"
          /\ inflight' = inflight \ {r}
          /\ LET req == r.request
                 sid == FreshSessionId(issued)
             IN  IF UploadRejection(req) # "none"
                 THEN /\ sessionStore' = sessionStore
                      /\ issued' = issued
                      /\ response' = Answer("upload_contract", req, 400, UploadRejection(req))
                 ELSE IF devMode
                 THEN /\ sessionStore' =
                             StoreSet(sessionStore, sid, NewEntry(req, TRUE, NoStripeId, now))
                      /\ issued' = issued \cup {sid}
                      /\ response' = Answer("upload_contract", req, 303, "redirect_results")
                 ELSE /\ sessionStore' =
                             StoreSet(sessionStore, sid,
                                      NewEntry(req, FALSE, CheckoutId(sid), now))
                      /\ issued' = issued \cup {sid}
                      /\ response' = Answer("upload_contract", req, 303, "redirect_checkout")
    /\ UNCHANGED <<text, analysis, evalIn, evalOut, devMode, now, fnIn, fnOut, disk, frame>>

\* stripe_webhook up to await request.body()
WebhookArrives ==
    /\ Quiescent
    /\ Cardinality(inflight) < MaxInflight
    /\ \E event \in ConcurrentEvents :
          IF devMode
          THEN /\ response' = Answer("stripe_webhook", event, 200, "ignored")
               /\ inflight' = inflight
          ELSE /\ InflightRequest("stripe_webhook", event, "await_body", {}) \notin inflight
               /\ response' = response
               /\ inflight' = inflight
                     \cup {InflightRequest("stripe_webhook", event, "await_body", {})}
    /\ UNCHANGED <<text, analysis, evalIn, evalOut, devMode, now, sessionStore, issued,
                   fnIn, fnOut, disk, frame>>

\* stripe_webhook from await request.body() to the membership check
\* `app_session_id and app_session_id in session_store`
WebhookResumes ==
    /\ Quiescent
    /\ \E r \in inflight :
          /\ r.handler = "stripe_webhook"
          /\ r.pc = "await_body"
          /\ LET event == r.request
                 app_session_id == event.client_reference_id
             IN  IF ~event.signed
                 THEN /\ response' = Answer("stripe_webhook", event, 400,
                                            "Invalid webhook signature")
                      /\ inflight' = inflight \ {r}
                 ELSE IF /\ event.type = "checkout.session.completed"
                         /\ app_session_id # NoSession
                         /\ app_session_id \in DOMAIN sessionStore
                 THEN /\ response' = response
                      /\ inflight' = (inflight \ {r})
                            \cup {InflightRequest("stripe_webhook", event, "found",
                                                  {app_session_id})}
                 ELSE /\ response' = Answer("stripe_webhook", event,
                                            WebhookReply(sessionStore, event).status,
                                            WebhookReply(sessionStore, event).body)
                      /\ inflight' = inflight \ {r}
    /\ UNCHANGED <<text, analysis, evalIn, evalOut, devMode, now, sessionStore, issued,
                   fnIn, fnOut, disk, frame>>

\* stripe_webhook: session_store[app_session_id].get("stripe_session_id") and
\* session_store[app_session_id]["paid"] = True
WebhookUpdates ==
    /\ \E r \in inflight :
          /\ r.handler = "stripe_webhook"
          /\ r.pc = "found"
          /\ \A other \in inflight \ {r} : MayYield(other.pc)
          /\ inflight' = inflight \ {r}
          /\ IF ~(r.keys \subseteq DOMAIN sessionStore)
             THEN /\ response' = KeyErrorAnswer(r)
                  /\ sessionStore' = sessionStore
             ELSE /\ response' = Answer("stripe_webhook", r.request,
                                        WebhookReply(sessionStore, r.request).status,
                                        WebhookReply(sessionStore, r.request).body)
                  /\ sessionStore' = MarkPaid(sessionStore, r.request)
    /\ UNCHANGED <<text, analysis, evalIn, evalOut, devMode, now, issued, fnIn, fnOut,
                   disk, frame>>

ReportHandlers == {"results", "download_pdf"}

\* the answer of results() or download_pdf() on the store cleanup left
ReportAnswer(handler, token, store, reply) ==
    IF handler = "results" THEN ResultsAnswer(token, store, reply)
    ELSE DownloadPdfAnswer(token, store, reply)

\* results() and download_pdf(): cleanup_expired_sessions() has built the
\* list `expired`
ReportArrives ==
    /\ Quiescent
    /\ Cardinality(inflight) < MaxInflight
    /\ \E handler \in ReportHandlers, token \in Tokens :
          inflight' = inflight
              \cup {InflightRequest(handler, token, "expired", ExpiredKeys(sessionStore, now))}
    /\ UNCHANGED <<text, analysis, evalIn, evalOut, devMode, now, sessionStore, issued,
                   response, fnIn, fnOut, disk, frame>>

\* cleanup_expired_sessions() deletes the keys of `expired`; the handler
\* verifies the token and checks `app_session_id not in session_store`
ReportCleans ==
    /\ \E r \in inflight :
          /\ r.handler \in ReportHandlers
          /\ r.pc = "expired"
          /\ \A other \in inflight \ {r} : MayYield(other.pc)
          /\ IF ~(r.keys \subseteq DOMAIN sessionStore)
             THEN /\ response' = KeyErrorAnswer(r)
                  /\ sessionStore' = sessionStore
                  /\ inflight' = inflight \ {r}
             ELSE LET store == DeleteKeys(sessionStore, r.keys)
                      app_session_id == VerifyToken(r.request)
                  IN  /\ sessionStore' = store
                      /\ IF IsFalsyId(app_session_id) \/ app_session_id \notin DOMAIN store
                         THEN /\ response' = ReportAnswer(r.handler, r.request, store,
                                                          NoCall.reply)
                              /\ inflight' = inflight \ {r}
                         ELSE /\ response' = response
                              /\ inflight' = (inflight \ {r})
                                    \cup {InflightRequest(r.handler, r.request, "found",
                                                          {app_session_id})}
    /\ UNCHANGED <<text, analysis, evalIn, evalOut, devMode, now, issued, fnIn, fnOut,
                   disk, frame>>

\* entry = session_store[app_session_id] and the rest of the handler
ReportReads ==
    /\ \E r \in inflight, reply \in HandlerReplies :
          /\ r.handler \in ReportHandlers
          /\ r.pc = "found"
          /\ \A other \in inflight \ {r} : MayYield(other.pc)
          /\ inflight' = inflight \ {r}
          /\ response' = IF ~(r.keys \subseteq DOMAIN sessionStore) THEN KeyErrorAnswer(r)
                         ELSE ReportAnswer(r.handler, r.request, sessionStore, reply)
    /\ UNCHANGED <<text, analysis, evalIn, evalOut, devMode, now, sessionStore, issued,
                   fnIn, fnOut, disk, frame>>

\* GET / between two awaits of the other handlers
IndexRuns == Quiescent /\ Index

NextConcurrent ==
    \/ UploadArrives
    \/ UploadResumes
    \/ WebhookArrives
    \/ WebhookResumes
    \/ WebhookUpdates
    \/ ReportArrives
    \/ ReportCleans
    \/ ReportReads
    \/ IndexRuns
    \/ Tick

SpecConcurrent == Init /\ [][NextConcurrent]_vars

\* a results() or download_pdf() reads the entry of a session that is paid
ReadsPaidSession ==
    \E r \in inflight :
        /\ r \notin inflight'
        /\ r.handler \in ReportHandlers
        /\ r.pc = "found"
        /\ \A sid \in r.keys : sid \in DOMAIN sessionStore /\ sessionStore[sid].paid

\* C29: however upload, webhook, results and download requests interleave
\* at their await points, no handler raises KeyError on session_store (a
\* session found by the membership check is there when the handler reads or
\* updates it, and cleanup deletes only keys that are there), a session that
\* is paid stays paid as long as it is stored, and a results or download
\* request that reads a paid session is not answered with the payment page.
C29_NoStoreRaceAndPaidPersists ==
    [][/\ response' # NotCalled => response'.failed_at # "session_store"
       /\ \A sid \in DOMAIN sessionStore \cap DOMAIN sessionStore' :
             sessionStore[sid].paid => sessionStore'[sid].paid
       /\ ReadsPaidSession =>
             response'.body \notin {"pending_page", "Payment required"}]_vars

\* a webhook marked a production session paid while another request was
\* waiting at an await, and a report handler then found the session
C29_Witness ==
    /\ ~devMode
    /\ \E r \in inflight :
          /\ r.handler \in ReportHandlers
          /\ r.pc = "found"
          /\ \A sid \in r.keys : sid \in DOMAIN sessionStore /\ sessionStore[sid].paid
    /\ \E r \in inflight : r.pc \in {"await_read", "await_body"}

====
